---- MODULE Spec2Model ----
(***************************************************************************)
(* A model of github-settings-sync: one run of syncSettings (src/index.js) *)
(* against a remote host whose answers are chosen nondeterministically.    *)
(*                                                                         *)
(* Every awaited handler is one action.  The remote calls the handler      *)
(* issued, in order and with their outcome, are left in `calls`; the log   *)
(* lines it printed (by category) in `logs`; the remote state it was       *)
(* shown in `env`.  These three are overwritten by the next handler, so a  *)
(* state predicate over them speaks about every handler invocation of     *)
(* every run.                                                              *)
(*                                                                         *)
(* A listed repository's fields (name, language, archived) are fixed by    *)
(* the listing response but first read by shouldProcessRepository; the     *)
(* model draws them at that first read.  Likewise the remote state of a    *)
(* domain is drawn when the domain's applier first reads it.               *)
(***************************************************************************)
EXTENDS Integers, Sequences, FiniteSets, TLC

\* ------------------------------------------------------------ bounds
\* The organization holds at most MaxRepos repositories.
MaxRepos == 2

\* Page size requested by getRepositories.
per_page == 100

\* ------------------------------------------------------------ values
\* An optional configuration section / option: absent, or present with a value.
Absent == [set |-> FALSE]
Some(v) == [set |-> TRUE, val |-> v]

\* An unset string option (undefined); "" is the other falsy string.
Unset == "undefined"
Truthy(s) == s # Unset /\ s # ""

\* null (repo.language of a repository without a primary language,
\* getFileContent's result for a missing file).
Null == "null"

Range(s) == {s[i] : i \in 1..Len(s)}

\* ------------------------------------------------------------ inputs
\* Filter options as the CLI hands them over: a regular expression source
\* (possibly one the RegExp constructor rejects), a language, a label.
NamePatterns == {Unset, "^svc-", "("}
FilterLanguages == {Unset, "go"}
FilterLabels == {Unset, "sync"}
FilterSpecs == [namePattern : NamePatterns, language : FilterLanguages, label : FilterLabels]

\* Repository objects of a listing response.
RepoNames == {"svc-a", "lib-b"}
RepoLanguages == {"Go", "Python", Null}
RepoObjects == [name : RepoNames, language : RepoLanguages, archived : BOOLEAN]

\* Label lists a repository may carry.
LabelLists == {<<>>, <<"bug">>, <<"bug", "sync">>}

\* JSON values of repository settings: a boolean, or an object whose members
\* (key, boolean) are kept in the order they were written or sent.
JBoolean(b) == [t |-> "boolean", v |-> b]
JObject(members) == [t |-> "object", v |-> members]

\* settings.repository: flag name -> value.
DesiredRepository == [has_wiki |-> JBoolean(FALSE), has_issues |-> JBoolean(TRUE)]
RepositorySections == {Absent, Some(DesiredRepository)}

\* What repos.get may answer: has_wiki and private always present,
\* has_issues present or missing from the response.
CurrentSettingsSet ==
    {[has_wiki |-> JBoolean(w), private |-> JBoolean(TRUE)] : w \in BOOLEAN}
    \cup {[has_wiki |-> JBoolean(w), has_issues |-> JBoolean(i), private |-> JBoolean(TRUE)] :
             w \in BOOLEAN, i \in BOOLEAN}

\* settings.collaborators: ordered {username, role}.
DesiredCollaborators == <<[username |-> "alice", role |-> "admin"],
                          [username |-> "bob", role |-> "write"]>>
\* A desired list whose only entry carries a role outside the documented five.
Roles == {"admin", "maintain", "write", "triage", "read"}
UnknownRoleCollaborators == <<[username |-> "dave", role |-> "owner"]>>
CollaboratorSections == {Absent, Some(DesiredCollaborators), Some(UnknownRoleCollaborators)}

\* What repos.listCollaborators may answer (login, role_name); carol is a
\* collaborator the configuration does not mention.
CurrentCollaboratorLists ==
    {a \o b \o <<[login |-> "carol", role_name |-> "read"]>> :
        a \in {<<>>, <<[login |-> "alice", role_name |-> "admin"]>>,
                     <<[login |-> "alice", role_name |-> "write"]>>},
        b \in {<<>>, <<[login |-> "bob", role_name |-> "write"]>>}}

\* settings.branch_protection: branch -> rule object, in Object.entries order.
RuleMain == [enforce_admins |-> TRUE]
RuleDev == [enforce_admins |-> FALSE]
DesiredBranchProtection == <<[branch |-> "main", protection |-> RuleMain],
                             [branch |-> "dev", protection |-> RuleDev]>>
BranchSections == {Absent, Some(DesiredBranchProtection)}
\* Protection a branch may carry remotely (never read by the program).
NoRule == [unprotected |-> TRUE]
RemoteRules == {RuleMain, RuleDev, NoRule}

\* settings.files: ordered {path, localPath}.
DesiredFiles == <<[path |-> ".gitignore", localPath |-> "./t/.gitignore"],
                  [path |-> "LICENSE", localPath |-> "./t/LICENSE"]>>
FileSections == {Absent, Some(DesiredFiles)}
SettingsSet == [repository : RepositorySections, collaborators : CollaboratorSections,
                branch_protection : BranchSections, files : FileSections]

\* File contents (text) and their base64 transport form.
Contents == {"a", "b"}
Base64Encode(text) == IF text = "a" THEN "YQ==" ELSE IF text = "b" THEN "Yg==" ELSE "?"
Base64Decode(b64) == IF b64 = "YQ==" THEN "a" ELSE IF b64 = "Yg==" THEN "b" ELSE "?"

\* ------------------------------------------------------------ state
VARIABLES
    dryRun,            \* syncSettings' dryRun argument
    filters,           \* syncSettings' filters argument
    settings,          \* syncSettings' settings argument
    remoteSatisfies,   \* environment: the remote already satisfies `settings` in every domain
    pc,                \* where syncSettings is suspended: list, filter, apply, done, fatal
    page,              \* getRepositories: page
    acc,               \* getRepositories: repos (the array being filled)
    listed,            \* history: the listForOrg calls of getRepositories (page, ok, data),
                       \* kept until the loop's first handler has run
    repos,             \* syncSettings: repos, as Some(list) once getRepositories returned
    idx,               \* syncSettings: index of `repo` in repos (for..of)
    pos,               \* syncSettings: position in Plan(settings) of the awaited applier call
    processedCount,
    skippedCount,
    summary,           \* the summary line, once printed
    calls,             \* calls issued by the last handler, in order
    logs,              \* log lines printed by the last handler, in order
    env,               \* the last handler: its name, its repository, what it was shown
    cli,               \* the command-line entry (bin.js) that called syncSettings, if any
    remote             \* the remote's contents, where a specification follows them from
                       \* one run to the next; elsewhere its answers are drawn at each call

vars == <<dryRun, filters, settings, remoteSatisfies, pc, page, acc, listed, repos, idx,
          pos, processedCount, skippedCount, summary, calls, logs, env, cli, remote>>

config == <<dryRun, filters, settings, remoteSatisfies, cli, remote>>

\* ------------------------------------------------------------ calls and logs
\* A call: the operation, the repository (index in the listing, 0 for the
\* listing itself), its arguments, whether it succeeded, and what it returned.
Call(op, repo, arg, ok, res) == [op |-> op, repo |-> repo, arg |-> arg, ok |-> ok, res |-> res]
NoArg == [none |-> TRUE]
Handler(name, repo) == [handler |-> name, repo |-> repo, k |-> 0]
Log(cat, what, repo, item) == [cat |-> cat, what |-> what, repo |-> repo, item |-> item]

MutatingOps == {"repos.update", "repos.addCollaborator", "repos.updateBranchProtection",
                "repos.createOrUpdateFileContents"}
IsMutating(c) == c.op \in MutatingOps
Mutations(cs) == SelectSeq(cs, IsMutating)

\* ------------------------------------------------------------ repository.js
\* The organization's listing is revealed page by page: `l` holds the calls
\* made so far.  A page already shown is shown again unchanged, pages after
\* the empty page are empty, and a new page holds the next k repositories
\* (k = 0: the empty page).  Any call may fail instead.
OkEntries(l) == {e \in Range(l) : e.ok}
PageShown(l, p) == \E e \in OkEntries(l) : e.page = p
PageData(l, p) == (CHOOSE e \in OkEntries(l) : e.page = p).data
ReposShown(l) == Cardinality(UNION {Range(e.data) : e \in OkEntries(l)})
EndShown(l) == \E e \in OkEntries(l) : e.data = <<>>
PageResponses(l, p) ==
    {[ok |-> FALSE]}
    \cup IF PageShown(l, p) THEN {[ok |-> TRUE, data |-> PageData(l, p)]}
         ELSE IF EndShown(l) THEN {[ok |-> TRUE, data |-> <<>>]}
         ELSE {[ok |-> TRUE, data |-> [i \in 1..k |-> ReposShown(l) + i]] :
                 k \in 0..(MaxRepos - ReposShown(l))}

ListCall(p, resp) ==
    Call("repos.listForOrg", 0, [per_page |-> per_page, page |-> p], resp.ok,
         IF resp.ok THEN resp.data ELSE <<>>)
\* Variant: a failed page ends the listing with what was collected so far.
getRepositories_partial(a, p, resp) ==
    IF ~resp.ok THEN [outcome |-> "return", repos |-> a, page |-> p]
    ELSE IF Len(resp.data) = 0 THEN [outcome |-> "return", repos |-> a, page |-> p]
    ELSE [outcome |-> "continue", repos |-> a \o resp.data, page |-> p + 1]

\* Variant: a page shorter than per_page is taken to be the last one.
getRepositories_shortPage(a, p, resp) ==
    IF ~resp.ok THEN [outcome |-> "throw", repos |-> a, page |-> p]
    ELSE IF Len(resp.data) < per_page
    THEN [outcome |-> "return", repos |-> a \o resp.data, page |-> p]
    ELSE [outcome |-> "continue", repos |-> a \o resp.data, page |-> p + 1]

\* One iteration of getRepositories' loop (repos, page) on the answer resp.
getRepositories(a, p, resp) ==
    IF ~resp.ok THEN [outcome |-> "throw", repos |-> a, page |-> p]
    ELSE IF Len(resp.data) = 0 THEN [outcome |-> "return", repos |-> a, page |-> p]
    ELSE [outcome |-> "continue", repos |-> a \o resp.data, page |-> p + 1]

\* Answers to repos.get.
SettingsResponses ==
    {[ok |-> FALSE]} \cup {[ok |-> TRUE, data |-> c] : c \in CurrentSettingsSet}

\* Variant: a failed fetch yields an empty settings object instead of null.
getRepositorySettings_emptyOnFailure(repo, resp) ==
    IF resp.ok
    THEN [value |-> Some(resp.data),
          calls |-> <<Call("repos.get", repo, NoArg, TRUE, resp.data)>>,
          logs |-> <<>>]
    ELSE [value |-> Some([key \in {} |-> TRUE]),
          calls |-> <<Call("repos.get", repo, NoArg, FALSE, NoArg)>>,
          logs |-> <<Log("error", "fetch settings", repo, "")>>]

getRepositorySettings(repo, resp) ==
    IF resp.ok
    THEN [value |-> Some(resp.data),
          calls |-> <<Call("repos.get", repo, NoArg, TRUE, resp.data)>>,
          logs |-> <<>>]
    ELSE [value |-> Absent,
          calls |-> <<Call("repos.get", repo, NoArg, FALSE, NoArg)>>,
          logs |-> <<Log("error", "fetch settings", repo, "")>>]

\* JSON.stringify of a setting value: an object's members are written in the
\* object's own key order; of a missing key (undefined) it is undefined.
RECURSIVE StringifyMembers(_)
StringifyMembers(members) ==
    IF members = <<>> THEN ""
    ELSE "\"" \o Head(members).key \o "\":"
         \o (IF Head(members).value THEN "true" ELSE "false")
         \o (IF Len(members) > 1 THEN "," ELSE "")
         \o StringifyMembers(Tail(members))
JSONstringify(v) ==
    IF v.t = "boolean" THEN (IF v.v THEN "true" ELSE "false")
    ELSE "{" \o StringifyMembers(v.v) \o "}"
StringifyKey(obj, key) == IF key \in DOMAIN obj THEN JSONstringify(obj[key]) ELSE Unset
\* Variant: once anything differs, the whole desired section is sent.
getSettingsDiff_whole(current, desired) ==
    IF \E key \in DOMAIN desired : StringifyKey(current, key) # JSONstringify(desired[key])
    THEN desired
    ELSE [key \in {} |-> TRUE]

getSettingsDiff(current, desired) ==
    LET differing == {key \in DOMAIN desired :
                        StringifyKey(current, key) # JSONstringify(desired[key])}
    IN [key \in differing |-> desired[key]]

\* Variant: the current settings are fetched before settings.repository is looked at.
updateRepositorySettings_fetchesFirst(repo, s, dry, resp, updateOk) ==
    LET got == getRepositorySettings(repo, resp)
    IN IF ~s.repository.set THEN [calls |-> got.calls, logs |-> <<>>]
       ELSE IF ~got.value.set THEN [calls |-> got.calls, logs |-> got.logs]
       ELSE
         LET settingsDiff == getSettingsDiff(got.value.val, s.repository.val)
         IN IF DOMAIN settingsDiff = {}
            THEN [calls |-> got.calls,
                  logs |-> <<Log("skip", "settings match", repo, "")>>]
            ELSE IF dry
            THEN [calls |-> got.calls,
                  logs |-> <<Log("preview", "update settings", repo, settingsDiff)>>]
            ELSE [calls |-> got.calls
                            \o <<Call("repos.update", repo, settingsDiff, updateOk, NoArg)>>,
                  logs |-> IF updateOk
                           THEN <<Log("success", "updated settings", repo, "")>>
                           ELSE <<Log("error", "update settings", repo, "")>>]

\* Variant: the update is sent even when nothing differs.
updateRepositorySettings_alwaysUpdates(repo, s, dry, resp, updateOk) ==
    IF ~s.repository.set THEN [calls |-> <<>>, logs |-> <<>>]
    ELSE
      LET got == getRepositorySettings(repo, resp)
      IN IF ~got.value.set THEN [calls |-> got.calls, logs |-> got.logs]
         ELSE
           LET settingsDiff == getSettingsDiff(got.value.val, s.repository.val)
           IN IF dry
              THEN [calls |-> got.calls,
                    logs |-> <<Log("preview", "update settings", repo, settingsDiff)>>]
              ELSE [calls |-> got.calls
                              \o <<Call("repos.update", repo, settingsDiff, updateOk, NoArg)>>,
                    logs |-> IF updateOk
                             THEN <<Log("success", "updated settings", repo, "")>>
                             ELSE <<Log("error", "update settings", repo, "")>>]

updateRepositorySettings(repo, s, dry, resp, updateOk) ==
    IF ~s.repository.set THEN [calls |-> <<>>, logs |-> <<>>]
    ELSE
      LET got == getRepositorySettings(repo, resp)
      IN IF ~got.value.set THEN [calls |-> got.calls, logs |-> got.logs]
         ELSE
           LET settingsDiff == getSettingsDiff(got.value.val, s.repository.val)
           IN IF DOMAIN settingsDiff = {}
              THEN [calls |-> got.calls,
                    logs |-> <<Log("skip", "settings match", repo, "")>>]
              ELSE IF dry
              THEN [calls |-> got.calls,
                    logs |-> <<Log("preview", "update settings", repo, settingsDiff)>>]
              ELSE [calls |-> got.calls
                              \o <<Call("repos.update", repo, settingsDiff, updateOk, NoArg)>>,
                    logs |-> IF updateOk
                             THEN <<Log("success", "updated settings", repo, "")>>
                             ELSE <<Log("error", "update settings", repo, "")>>]

\* ------------------------------------------------------------ collaborators.js
CollaboratorResponses ==
    {[ok |-> FALSE]} \cup {[ok |-> TRUE, data |-> l] : l \in CurrentCollaboratorLists}

getRepositoryCollaborators(repo, resp) ==
    IF resp.ok
    THEN [value |-> [i \in 1..Len(resp.data) |->
                        [username |-> resp.data[i].login, role |-> resp.data[i].role_name]],
          calls |-> <<Call("repos.listCollaborators", repo, NoArg, TRUE, resp.data)>>,
          logs |-> <<>>]
    ELSE [value |-> <<>>,
          calls |-> <<Call("repos.listCollaborators", repo, NoArg, FALSE, NoArg)>>,
          logs |-> <<Log("warn", "fetch collaborators", repo, "")>>]

\* Array.prototype.find: the first element with the username.
FindCollaborator(current, username) ==
    current[CHOOSE i \in 1..Len(current) :
              /\ current[i].username = username
              /\ \A j \in 1..(i - 1) : current[j].username # username]

AddCollaboratorCall(repo, collaborator, ok) ==
    Call("repos.addCollaborator", repo,
         [username |-> collaborator.username, permission |-> collaborator.role], ok, NoArg)

\* Variant: a collaborator already on the repository is left with the role it has.
ReconcileCollaborator_addOnly(repo, current, collaborator, dry, ok) ==
    IF collaborator.username \in {current[i].username : i \in 1..Len(current)}
    THEN [calls |-> <<>>, logs |-> <<>>]
    ELSE IF dry
    THEN [calls |-> <<>>,
          logs |-> <<Log("preview", "add collaborator", repo, collaborator)>>]
    ELSE [calls |-> <<AddCollaboratorCall(repo, collaborator, ok)>>,
          logs |-> IF ok
                   THEN <<Log("success", "added collaborator", repo, collaborator)>>
                   ELSE <<Log("error", "add collaborator", repo, collaborator)>>]

\* The body of updateRepositoryCollaborators' loop for one desired entry;
\* ok is the outcome of its addCollaborator call, should it issue one.
ReconcileCollaborator(repo, current, collaborator, dry, ok) ==
    LET currentUsernames == {current[i].username : i \in 1..Len(current)}
    IN IF collaborator.username \notin currentUsernames
       THEN IF dry
            THEN [calls |-> <<>>,
                  logs |-> <<Log("preview", "add collaborator", repo, collaborator)>>]
            ELSE [calls |-> <<AddCollaboratorCall(repo, collaborator, ok)>>,
                  logs |-> IF ok
                           THEN <<Log("success", "added collaborator", repo, collaborator)>>
                           ELSE <<Log("error", "add collaborator", repo, collaborator)>>]
       ELSE
         LET currentCollab == FindCollaborator(current, collaborator.username)
         IN IF currentCollab.role # collaborator.role
            THEN IF dry
                 THEN [calls |-> <<>>,
                       logs |-> <<Log("preview", "update role", repo,
                                      [username |-> collaborator.username,
                                       from |-> currentCollab.role,
                                       to |-> collaborator.role])>>]
                 ELSE [calls |-> <<AddCollaboratorCall(repo, collaborator, ok)>>,
                       logs |-> IF ok
                                THEN <<Log("success", "updated role", repo, collaborator)>>
                                ELSE <<Log("error", "update role", repo, collaborator)>>]
            ELSE [calls |-> <<>>, logs |-> <<>>]

\* Variant: the loop is left at the first failed set-permission call.
RECURSIVE ReconcileFrom_stopsOnFailure(_, _, _, _, _, _)
ReconcileFrom_stopsOnFailure(i, repo, current, desired, dry, oks) ==
    IF i > Len(desired) THEN [calls |-> <<>>, logs |-> <<>>]
    ELSE LET one == ReconcileCollaborator(repo, current, desired[i], dry, oks[i])
             failed == \E c \in Range(one.calls) : ~c.ok
             rest == IF failed THEN [calls |-> <<>>, logs |-> <<>>]
                     ELSE ReconcileFrom_stopsOnFailure(i + 1, repo, current, desired, dry, oks)
         IN [calls |-> one.calls \o rest.calls, logs |-> one.logs \o rest.logs]

\* Variant: the current list is brought up to date after every entry, so a
\* later entry is compared with what the earlier calls have set.
RECURSIVE ReconcileFrom_tracksCurrent(_, _, _, _, _, _)
ReconcileFrom_tracksCurrent(i, repo, current, desired, dry, oks) ==
    IF i > Len(desired) THEN [calls |-> <<>>, logs |-> <<>>]
    ELSE LET one == ReconcileCollaborator(repo, current, desired[i], dry, oks[i])
             others == SelectSeq(current, LAMBDA c : c.username # desired[i].username)
             rest == ReconcileFrom_tracksCurrent(i + 1, repo, Append(others, desired[i]),
                                                 desired, dry, oks)
         IN [calls |-> one.calls \o rest.calls, logs |-> one.logs \o rest.logs]

\* The for..of loop over desiredCollaborators from entry i on; oks[i] is the
\* outcome of entry i's addCollaborator call.
RECURSIVE ReconcileFrom(_, _, _, _, _, _)
ReconcileFrom(i, repo, current, desired, dry, oks) ==
    IF i > Len(desired) THEN [calls |-> <<>>, logs |-> <<>>]
    ELSE LET one == ReconcileCollaborator(repo, current, desired[i], dry, oks[i])
             rest == ReconcileFrom(i + 1, repo, current, desired, dry, oks)
         IN [calls |-> one.calls \o rest.calls, logs |-> one.logs \o rest.logs]
\* Variant: collaborators the configuration does not list are removed.
updateRepositoryCollaborators_prunes(repo, desiredCollaborators, dry, resp, oks) ==
    LET got == getRepositoryCollaborators(repo, resp)
        done == ReconcileFrom(1, repo, got.value, desiredCollaborators, dry, oks)
        wanted == {desiredCollaborators[i].username : i \in 1..Len(desiredCollaborators)}
        extra == SelectSeq(got.value, LAMBDA c : c.username \notin wanted)
        removals == [i \in 1..Len(extra) |->
                        Call("repos.removeCollaborator", repo,
                             [username |-> extra[i].username], TRUE, NoArg)]
    IN [calls |-> got.calls \o done.calls \o (IF dry THEN <<>> ELSE removals),
        logs |-> got.logs \o done.logs]

\* Variant: nothing is reconciled when the current list could not be fetched.
updateRepositoryCollaborators_needsList(repo, desiredCollaborators, dry, resp, oks) ==
    LET got == getRepositoryCollaborators(repo, resp)
        done == IF resp.ok
                THEN ReconcileFrom(1, repo, got.value, desiredCollaborators, dry, oks)
                ELSE [calls |-> <<>>, logs |-> <<>>]
    IN [calls |-> got.calls \o done.calls, logs |-> got.logs \o done.logs]

updateRepositoryCollaborators(repo, desiredCollaborators, dry, resp, oks) ==
    LET got == getRepositoryCollaborators(repo, resp)
        done == ReconcileFrom(1, repo, got.value, desiredCollaborators, dry, oks)
    IN [calls |-> got.calls \o done.calls, logs |-> got.logs \o done.logs]
\* Variant: the dryRun flag is not consulted.
updateBranchProtection_ignoresDryRun(repo, branch, protection, dry, ok) ==
    [calls |-> <<Call("repos.updateBranchProtection", repo,
                      [branch |-> branch, protection |-> protection], ok, NoArg)>>,
     logs |-> <<Log("success", "updated branch protection", repo, branch)>>]

\* Variant: the current protection is fetched before it is overwritten.
updateBranchProtection_readsFirst(repo, branch, protection, dry, ok) ==
    IF dry
    THEN [calls |-> <<>>,
          logs |-> <<Log("preview", "update branch protection", repo,
                         [branch |-> branch, protection |-> protection])>>]
    ELSE [calls |-> <<Call("repos.getBranchProtection", repo, [branch |-> branch], TRUE, NoArg),
                      Call("repos.updateBranchProtection", repo,
                           [branch |-> branch, protection |-> protection], ok, NoArg)>>,
          logs |-> IF ok
                   THEN <<Log("success", "updated branch protection", repo, branch)>>
                   ELSE <<Log("error", "update branch protection", repo, branch)>>]

\* ------------------------------------------------------------ branch-protection.js
updateBranchProtection(repo, branch, protection, dry, ok) ==
    IF dry
    THEN [calls |-> <<>>,
          logs |-> <<Log("preview", "update branch protection", repo,
                         [branch |-> branch, protection |-> protection])>>]
    ELSE [calls |-> <<Call("repos.updateBranchProtection", repo,
                           [branch |-> branch, protection |-> protection], ok, NoArg)>>,
          logs |-> IF ok
                   THEN <<Log("success", "updated branch protection", repo, branch)>>
                   ELSE <<Log("error", "update branch protection", repo, branch)>>]

\* ------------------------------------------------------------ file-sync.js
\* Answers to fs.readFile and to repos.getContent.
ReadResponses == {[ok |-> FALSE]} \cup {[ok |-> TRUE, data |-> c] : c \in Contents}
\* The blob sha of a file: a function of its content.
BlobSha(text) == "sha-" \o text
ContentResponses ==
    {[ok |-> FALSE, status |-> 404], [ok |-> FALSE, status |-> 500],
     [ok |-> TRUE, data |-> [type |-> "dir"]]}
    \cup {[ok |-> TRUE, data |-> [type |-> "file", content |-> Base64Encode(c), sha |-> BlobSha(c)]] :
            c \in Contents}

\* Variant: every failed fetch is taken for a missing file.
getFileContent_swallowsErrors(repo, path, resp) ==
    LET call == Call("repos.getContent", repo, [path |-> path], resp.ok,
                     IF resp.ok THEN resp.data ELSE [status |-> resp.status])
    IN IF resp.ok /\ resp.data.type = "file"
       THEN [threw |-> FALSE, calls |-> <<call>>,
             value |-> Some([content |-> Base64Decode(resp.data.content),
                             sha |-> resp.data.sha])]
       ELSE [threw |-> FALSE, calls |-> <<call>>, value |-> Absent]

\* Variant: an object that is not a file is an error, not a missing file.
getFileContent_rejectsNonFile(repo, path, resp) ==
    LET call == Call("repos.getContent", repo, [path |-> path], resp.ok,
                     IF resp.ok THEN resp.data ELSE [status |-> resp.status])
    IN IF resp.ok
       THEN IF resp.data.type = "file"
            THEN [threw |-> FALSE, calls |-> <<call>>,
                  value |-> Some([content |-> Base64Decode(resp.data.content),
                                  sha |-> resp.data.sha])]
            ELSE [threw |-> TRUE, calls |-> <<call>>, value |-> Absent]
       ELSE IF resp.status = 404
            THEN [threw |-> FALSE, calls |-> <<call>>, value |-> Absent]
            ELSE [threw |-> TRUE, calls |-> <<call>>, value |-> Absent]

getFileContent(repo, path, resp) ==
    LET call == Call("repos.getContent", repo, [path |-> path], resp.ok,
                     IF resp.ok THEN resp.data ELSE [status |-> resp.status])
    IN IF resp.ok
       THEN IF resp.data.type = "file"
            THEN [threw |-> FALSE, calls |-> <<call>>,
                  value |-> Some([content |-> Base64Decode(resp.data.content),
                                  sha |-> resp.data.sha])]
            ELSE [threw |-> FALSE, calls |-> <<call>>, value |-> Absent]
       ELSE IF resp.status = 404
            THEN [threw |-> FALSE, calls |-> <<call>>, value |-> Absent]
            ELSE [threw |-> TRUE, calls |-> <<call>>, value |-> Absent]

\* Variant: the call never carries the sha of the current file.
updateFileContent_dropsSha(repo, path, content, sha, dry, ok) ==
    LET message == IF Truthy(sha) THEN "Update " \o path ELSE "Add " \o path
    IN IF dry
       THEN [calls |-> <<>>,
             logs |-> <<Log("preview", IF Truthy(sha) THEN "update file" ELSE "create file",
                            repo, path),
                        Log("preview", "content length", repo, path)>>]
       ELSE [calls |-> <<Call("repos.createOrUpdateFileContents", repo,
                              [path |-> path, message |-> message,
                               content |-> Base64Encode(content), sha |-> Unset], ok, NoArg)>>,
             logs |-> IF ok
                      THEN <<Log("success", IF Truthy(sha) THEN "updated file" ELSE "created file",
                                 repo, path)>>
                      ELSE <<Log("error", "update file", repo, path)>>]

\* Variant: a failed create-or-update call is made a second time.
updateFileContent_retries(repo, path, content, sha, dry, ok) ==
    LET message == IF Truthy(sha) THEN "Update " \o path ELSE "Add " \o path
        call == Call("repos.createOrUpdateFileContents", repo,
                     [path |-> path, message |-> message,
                      content |-> Base64Encode(content), sha |-> sha], ok, NoArg)
    IN IF dry
       THEN [calls |-> <<>>,
             logs |-> <<Log("preview", IF Truthy(sha) THEN "update file" ELSE "create file",
                            repo, path),
                        Log("preview", "content length", repo, path)>>]
       ELSE [calls |-> IF ok THEN <<call>> ELSE <<call, call>>,
             logs |-> IF ok
                      THEN <<Log("success", IF Truthy(sha) THEN "updated file" ELSE "created file",
                                 repo, path)>>
                      ELSE <<Log("error", "update file", repo, path)>>]

\* sha is Unset (undefined) when there is no current file.
updateFileContent(repo, path, content, sha, dry, ok) ==
    LET message == IF Truthy(sha) THEN "Update " \o path ELSE "Add " \o path
    IN IF dry
       THEN [calls |-> <<>>,
             logs |-> <<Log("preview", IF Truthy(sha) THEN "update file" ELSE "create file",
                            repo, path),
                        Log("preview", "content length", repo, path)>>]
       ELSE [calls |-> <<Call("repos.createOrUpdateFileContents", repo,
                              [path |-> path, message |-> message,
                               content |-> Base64Encode(content), sha |-> sha], ok, NoArg)>>,
             logs |-> IF ok
                      THEN <<Log("success", IF Truthy(sha) THEN "updated file" ELSE "created file",
                                 repo, path)>>
                      ELSE <<Log("error", "update file", repo, path)>>]

\* Variant: the file is written whether or not its content differs.
syncFileContent_alwaysWrites(repo, fileSync, dry, local, resp, ok) ==
    LET read == Call("fs.readFile", repo, [path |-> fileSync.localPath], local.ok,
                     IF local.ok THEN local.data ELSE "")
    IN IF ~local.ok
       THEN [calls |-> <<read>>, logs |-> <<Log("error", "sync file", repo, fileSync.path)>>]
       ELSE
         LET currentFile == getFileContent(repo, fileSync.path, resp)
         IN IF currentFile.threw
            THEN [calls |-> <<read>> \o currentFile.calls,
                  logs |-> <<Log("error", "sync file", repo, fileSync.path)>>]
            ELSE LET upd == updateFileContent(repo, fileSync.path, local.data,
                                IF currentFile.value.set THEN currentFile.value.val.sha ELSE Unset,
                                dry, ok)
                 IN [calls |-> <<read>> \o currentFile.calls \o upd.calls, logs |-> upd.logs]

\* Variant: a dry run does not look at the repository and previews every file.
syncFileContent_dryNoFetch(repo, fileSync, dry, local, resp, ok) ==
    LET read == Call("fs.readFile", repo, [path |-> fileSync.localPath], local.ok,
                     IF local.ok THEN local.data ELSE "")
    IN IF ~local.ok
       THEN [calls |-> <<read>>, logs |-> <<Log("error", "sync file", repo, fileSync.path)>>]
       ELSE IF dry
       THEN [calls |-> <<read>>,
             logs |-> updateFileContent(repo, fileSync.path, local.data, Unset, dry, ok).logs]
       ELSE
         LET currentFile == getFileContent(repo, fileSync.path, resp)
         IN IF currentFile.threw
            THEN [calls |-> <<read>> \o currentFile.calls,
                  logs |-> <<Log("error", "sync file", repo, fileSync.path)>>]
            ELSE IF ~currentFile.value.set \/ currentFile.value.val.content # local.data
            THEN LET upd == updateFileContent(repo, fileSync.path, local.data,
                                IF currentFile.value.set THEN currentFile.value.val.sha ELSE Unset,
                                dry, ok)
                 IN [calls |-> <<read>> \o currentFile.calls \o upd.calls, logs |-> upd.logs]
            ELSE [calls |-> <<read>> \o currentFile.calls,
                  logs |-> <<Log("skip", "content matches", repo, fileSync.path)>>]

\* Variant: the repository is asked for the file before the local file is read.
syncFileContent_fetchesBeforeRead(repo, fileSync, dry, local, resp, ok) ==
    LET read == Call("fs.readFile", repo, [path |-> fileSync.localPath], local.ok,
                     IF local.ok THEN local.data ELSE "")
    IN IF ~local.ok
       THEN [calls |-> <<Call("repos.getContent", repo, [path |-> fileSync.path], FALSE, NoArg),
                         read>>,
             logs |-> <<Log("error", "sync file", repo, fileSync.path)>>]
       ELSE
         LET currentFile == getFileContent(repo, fileSync.path, resp)
         IN IF currentFile.threw
            THEN [calls |-> currentFile.calls \o <<read>>,
                  logs |-> <<Log("error", "sync file", repo, fileSync.path)>>]
            ELSE IF ~currentFile.value.set \/ currentFile.value.val.content # local.data
            THEN LET upd == updateFileContent(repo, fileSync.path, local.data,
                                IF currentFile.value.set THEN currentFile.value.val.sha ELSE Unset,
                                dry, ok)
                 IN [calls |-> currentFile.calls \o <<read>> \o upd.calls, logs |-> upd.logs]
            ELSE [calls |-> currentFile.calls \o <<read>>,
                  logs |-> <<Log("skip", "content matches", repo, fileSync.path)>>]

syncFileContent(repo, fileSync, dry, local, resp, ok) ==
    LET read == Call("fs.readFile", repo, [path |-> fileSync.localPath], local.ok,
                     IF local.ok THEN local.data ELSE "")
    IN IF ~local.ok
       THEN [calls |-> <<read>>, logs |-> <<Log("error", "sync file", repo, fileSync.path)>>]
       ELSE
         LET currentFile == getFileContent(repo, fileSync.path, resp)
         IN IF currentFile.threw
            THEN [calls |-> <<read>> \o currentFile.calls,
                  logs |-> <<Log("error", "sync file", repo, fileSync.path)>>]
            ELSE IF ~currentFile.value.set \/ currentFile.value.val.content # local.data
            THEN LET upd == updateFileContent(repo, fileSync.path, local.data,
                                IF currentFile.value.set THEN currentFile.value.val.sha ELSE Unset,
                                dry, ok)
                 IN [calls |-> <<read>> \o currentFile.calls \o upd.calls, logs |-> upd.logs]
            ELSE [calls |-> <<read>> \o currentFile.calls,
                  logs |-> <<Log("skip", "content matches", repo, fileSync.path)>>]

\* ------------------------------------------------------------ filters.js
LabelResponses ==
    {[ok |-> FALSE]}
    \cup {[ok |-> TRUE, data |-> [i \in 1..Len(l) |-> [name |-> l[i]]]] : l \in LabelLists}

\* Variant: a failed label fetch is tried a second time.
getRepositoryLabels_retries(repo, resp) ==
    IF resp.ok
    THEN [value |-> [i \in 1..Len(resp.data) |-> resp.data[i].name],
          calls |-> <<Call("issues.listLabelsForRepo", repo, NoArg, TRUE, resp.data)>>,
          logs |-> <<>>]
    ELSE [value |-> <<>>,
          calls |-> <<Call("issues.listLabelsForRepo", repo, NoArg, FALSE, NoArg),
                      Call("issues.listLabelsForRepo", repo, NoArg, FALSE, NoArg)>>,
          logs |-> <<Log("warn", "fetch labels", repo, "")>>]

getRepositoryLabels(repo, resp) ==
    IF resp.ok
    THEN [value |-> [i \in 1..Len(resp.data) |-> resp.data[i].name],
          calls |-> <<Call("issues.listLabelsForRepo", repo, NoArg, TRUE, resp.data)>>,
          logs |-> <<>>]
    ELSE [value |-> <<>>,
          calls |-> <<Call("issues.listLabelsForRepo", repo, NoArg, FALSE, NoArg)>>,
          logs |-> <<Log("warn", "fetch labels", repo, "")>>]

\* new RegExp(source) throws a SyntaxError on a malformed source.
RegExpValid(source) == source # "("
\* new RegExp(source).test(name), for the sources of NamePatterns.
RegExpTest(source, name) ==
    IF source = "^svc-" THEN name \in {"svc-a"} ELSE FALSE
toLowerCase(str) ==
    IF str = "Go" THEN "go" ELSE IF str = "Python" THEN "python" ELSE str

\* No filter option is set.
NoFilters(f) == ~Truthy(f.namePattern) /\ ~Truthy(f.label) /\ ~Truthy(f.language)
\* Variant: the language is compared case-sensitively.
LanguageMatches_caseSensitive(obj, f) ==
    obj.language # Null /\ obj.language = f.language

\* The language test of shouldProcessRepository.
LanguageMatches(obj, f) ==
    obj.language # Null /\ toLowerCase(obj.language) = toLowerCase(f.language)

\* Variant: the labels are fetched as soon as a label filter is seen, before
\* the name pattern and the language are tested.
FilterChain_fetchesLabelsFirst(repo, obj, f, resp) ==
    LET labels == IF Truthy(f.label) THEN getRepositoryLabels(repo, resp)
                  ELSE [value |-> <<>>, calls |-> <<>>, logs |-> <<>>]
    IN IF obj.archived
       THEN [outcome |-> "false", calls |-> <<>>,
             logs |-> <<Log("skip", "archived", repo, "")>>]
       ELSE IF Truthy(f.namePattern) /\ ~RegExpValid(f.namePattern)
       THEN [outcome |-> "throw", calls |-> labels.calls, logs |-> labels.logs]
       ELSE IF Truthy(f.namePattern) /\ ~RegExpTest(f.namePattern, obj.name)
       THEN [outcome |-> "false", calls |-> labels.calls,
             logs |-> labels.logs \o <<Log("skip", "name pattern", repo, f.namePattern)>>]
       ELSE IF Truthy(f.language) /\ ~LanguageMatches(obj, f)
       THEN [outcome |-> "false", calls |-> labels.calls,
             logs |-> labels.logs \o <<Log("skip", "language", repo, f.language)>>]
       ELSE IF Truthy(f.label) /\ f.label \notin Range(labels.value)
       THEN [outcome |-> "false", calls |-> labels.calls,
             logs |-> labels.logs \o <<Log("skip", "label", repo, f.label)>>]
       ELSE [outcome |-> "true", calls |-> labels.calls, logs |-> labels.logs]

\* shouldProcessRepository once some filter option is set: archived, name
\* pattern, language, label, in this order, each a short-circuit rejection.
FilterChain(repo, obj, f, resp) ==
    IF obj.archived
    THEN [outcome |-> "false", calls |-> <<>>,
          logs |-> <<Log("skip", "archived", repo, "")>>]
    ELSE IF Truthy(f.namePattern) /\ ~RegExpValid(f.namePattern)
    THEN [outcome |-> "throw", calls |-> <<>>, logs |-> <<>>]
    ELSE IF Truthy(f.namePattern) /\ ~RegExpTest(f.namePattern, obj.name)
    THEN [outcome |-> "false", calls |-> <<>>,
          logs |-> <<Log("skip", "name pattern", repo, f.namePattern)>>]
    ELSE IF Truthy(f.language) /\ ~LanguageMatches(obj, f)
    THEN [outcome |-> "false", calls |-> <<>>,
          logs |-> <<Log("skip", "language", repo, f.language)>>]
    ELSE IF Truthy(f.label)
    THEN LET labels == getRepositoryLabels(repo, resp)
         IN IF f.label \notin Range(labels.value)
            THEN [outcome |-> "false", calls |-> labels.calls,
                  logs |-> labels.logs \o <<Log("skip", "label", repo, f.label)>>]
            ELSE [outcome |-> "true", calls |-> labels.calls, logs |-> labels.logs]
    ELSE [outcome |-> "true", calls |-> <<>>, logs |-> <<>>]
\* Variant: archived repositories are rejected before the filters are looked at.
shouldProcessRepository_archivedFirst(repo, obj, f, resp) ==
    IF obj.archived
    THEN [outcome |-> "false", calls |-> <<>>,
          logs |-> <<Log("skip", "archived", repo, "")>>]
    ELSE IF NoFilters(f)
    THEN [outcome |-> "true", calls |-> <<>>, logs |-> <<>>]
    ELSE FilterChain(repo, obj, f, resp)

\* repo is the repository's index, obj the repository object of the listing,
\* resp the answer to the label fetch should it be made.
shouldProcessRepository(repo, obj, f, resp) ==
    IF NoFilters(f)
    THEN [outcome |-> "true", calls |-> <<>>, logs |-> <<>>]
    ELSE FilterChain(repo, obj, f, resp)

\* ------------------------------------------------------------ index.js
\* The awaited applier calls of one matching repository and the
\* repository-level lines printed after each section, in program order.
PlanCall(domain, k) == [kind |-> "call", domain |-> domain, k |-> k]
PlanLine(domain) == [kind |-> "line", domain |-> domain, k |-> 0]
\* Variant: files are synced before branch protection is applied.
Plan_filesFirst(s) ==
    <<PlanCall("settings", 0)>>
    \o (IF s.collaborators.set
        THEN <<PlanCall("collaborators", 0), PlanLine("collaborators")>> ELSE <<>>)
    \o (IF s.files.set
        THEN [k \in 1..Len(s.files.val) |-> PlanCall("files", k)] \o <<PlanLine("files")>>
        ELSE <<>>)
    \o (IF s.branch_protection.set
        THEN [k \in 1..Len(s.branch_protection.val) |-> PlanCall("branch", k)]
             \o <<PlanLine("branch")>>
        ELSE <<>>)

Plan(s) ==
    <<PlanCall("settings", 0)>>
    \o (IF s.collaborators.set
        THEN <<PlanCall("collaborators", 0), PlanLine("collaborators")>> ELSE <<>>)
    \o (IF s.branch_protection.set
        THEN [k \in 1..Len(s.branch_protection.val) |-> PlanCall("branch", k)]
             \o <<PlanLine("branch")>>
        ELSE <<>>)
    \o (IF s.files.set
        THEN [k \in 1..Len(s.files.val) |-> PlanCall("files", k)] \o <<PlanLine("files")>>
        ELSE <<>>)

\* The next awaited call after position `from`, or Len(plan) + 1.
NextCall(plan, from) ==
    IF \E t \in (from + 1)..Len(plan) : plan[t].kind = "call"
    THEN CHOOSE t \in (from + 1)..Len(plan) :
            /\ plan[t].kind = "call"
            /\ \A u \in (from + 1)..(t - 1) : plan[u].kind # "call"
    ELSE Len(plan) + 1

\* The repository-level lines printed between position `from` and `to`.
RECURSIVE LinesBetween(_, _, _, _)
LinesBetween(plan, from, to, repo) ==
    IF from + 1 >= to THEN <<>>
    ELSE <<Log("success", plan[from + 1].domain, repo, "")>>
         \o LinesBetween(plan, from + 1, to, repo)

Summary(total, processed, skipped, dry) ==
    [total |-> total, processed |-> processed, skipped |-> skipped,
     mode |-> IF dry THEN "Dry Run" ELSE "Live"]

\* Variant: the loop walks the list from its last repository to its first.
NextRepo_backwards(list, i, processed, skipped) ==
    /\ processedCount' = processed
    /\ skippedCount' = skipped
    /\ pos' = 0
    /\ IF (i = 0 /\ Len(list) > 0) \/ i > 1
       THEN /\ idx' = (IF i = 0 THEN Len(list) ELSE i - 1)
            /\ pc' = "filter"
            /\ summary' = summary
       ELSE /\ idx' = i
            /\ pc' = "done"
            /\ summary' = Some(Summary(Len(list), processed, skipped, dryRun))

\* The for..of loop moving past repos[i] with the counters as given: the next
\* repository's filter, or the summary.
NextRepo(list, i, processed, skipped) ==
    /\ processedCount' = processed
    /\ skippedCount' = skipped
    /\ pos' = 0
    /\ IF i < Len(list)
       THEN idx' = i + 1 /\ pc' = "filter" /\ summary' = summary
       ELSE /\ idx' = i
            /\ pc' = "done"
            /\ summary' = Some(Summary(Len(list), processed, skipped, dryRun))

\* Variant: a repository one of whose handlers logged an error is not counted
\* as processed.
Advance_countsOnlyClean(handlerLogs) ==
    LET plan == Plan(settings)
        to == NextCall(plan, pos)
        clean == \A l \in 1..Len(handlerLogs) : handlerLogs[l].cat # "error"
    IN /\ logs' = handlerLogs \o LinesBetween(plan, pos, to, repos.val[idx])
       /\ IF to <= Len(plan)
          THEN /\ pos' = to
               /\ UNCHANGED <<pc, idx, processedCount, skippedCount, summary>>
          ELSE NextRepo(repos.val, idx, processedCount + (IF clean THEN 1 ELSE 0), skippedCount)

\* Variant: a handler that logged an error ends the work on its repository.
Advance_leavesRepoOnError(handlerLogs) ==
    LET plan == Plan(settings)
        to == NextCall(plan, pos)
        failed == \E l \in 1..Len(handlerLogs) : handlerLogs[l].cat = "error"
    IN /\ logs' = handlerLogs \o LinesBetween(plan, pos, to, repos.val[idx])
       /\ IF to <= Len(plan) /\ ~failed
          THEN /\ pos' = to
               /\ UNCHANGED <<pc, idx, processedCount, skippedCount, summary>>
          ELSE NextRepo(repos.val, idx, processedCount + 1, skippedCount)

\* Variant: a repository is counted as processed when its first applier
\* returns, not after its last.
Advance_countsAtFirstHandler(handlerLogs) ==
    LET plan == Plan(settings)
        to == NextCall(plan, pos)
        first == IF pos = 1 THEN 1 ELSE 0
    IN /\ logs' = handlerLogs \o LinesBetween(plan, pos, to, repos.val[idx])
       /\ IF to <= Len(plan)
          THEN /\ pos' = to
               /\ processedCount' = processedCount + first
               /\ UNCHANGED <<pc, idx, skippedCount, summary>>
          ELSE NextRepo(repos.val, idx, processedCount + first, skippedCount)

\* Variant: the repository-level line of a section is printed only when the
\* section's last handler logged no error.
Advance_lineOnlyOnSuccess(handlerLogs) ==
    LET plan == Plan(settings)
        to == NextCall(plan, pos)
        failed == \E l \in 1..Len(handlerLogs) : handlerLogs[l].cat = "error"
    IN /\ logs' = handlerLogs
                   \o (IF failed THEN <<>> ELSE LinesBetween(plan, pos, to, repos.val[idx]))
       /\ IF to <= Len(plan)
          THEN /\ pos' = to
               /\ UNCHANGED <<pc, idx, processedCount, skippedCount, summary>>
          ELSE NextRepo(repos.val, idx, processedCount + 1, skippedCount)

\* syncSettings from the return of the applier call at `pos` to its next await.
Advance(handlerLogs) ==
    LET plan == Plan(settings)
        to == NextCall(plan, pos)
    IN /\ logs' = handlerLogs \o LinesBetween(plan, pos, to, repos.val[idx])
       /\ IF to <= Len(plan)
          THEN /\ pos' = to
               /\ UNCHANGED <<pc, idx, processedCount, skippedCount, summary>>
          ELSE NextRepo(repos.val, idx, processedCount + 1, skippedCount)

\* Outcomes of a call that is made only under `needed`: without it the
\* answer is never looked at, and one stands for all.
Answers(needed, responses) == IF needed THEN responses ELSE {[ok |-> FALSE]}
Outcomes(needed) == IF needed THEN BOOLEAN ELSE {TRUE}

\* syncSettings called by a caller other than the command-line entry.
DirectCall == [stage |-> "sync"]
\* The remote's contents are not followed.
Untracked == [run |-> 0]

Init ==
    /\ dryRun \in BOOLEAN
    /\ filters \in FilterSpecs
    /\ settings \in SettingsSet
    /\ remoteSatisfies \in (IF dryRun THEN {FALSE} ELSE BOOLEAN)
    /\ pc = "list"
    /\ page = 1
    /\ acc = <<>>
    /\ listed = <<>>
    /\ repos = Absent
    /\ idx = 0
    /\ pos = 0
    /\ processedCount = 0
    /\ skippedCount = 0
    /\ summary = Absent
    /\ calls = <<>>
    /\ logs = <<>>
    /\ env = Handler("none", 0)
    /\ cli = DirectCall
    /\ remote = Untracked

\* await getRepositories(octokit, org): one listForOrg round trip.
ListPage ==
    /\ pc = "list"
    /\ \E resp \in PageResponses(listed, page) :
        LET r == getRepositories(acc, page, resp)
        IN /\ calls' = <<ListCall(page, resp)>>
           /\ listed' = Append(listed, [page |-> page, ok |-> resp.ok,
                                        data |-> IF resp.ok THEN resp.data ELSE <<>>])
           /\ env' = Handler("getRepositories", 0)
           /\ acc' = (IF r.outcome = "return" THEN <<>> ELSE r.repos)
           /\ page' = (IF r.outcome = "return" THEN 1 ELSE r.page)
           /\ CASE r.outcome = "throw" ->
                     /\ pc' = "fatal"
                     /\ logs' = <<Log("error", "sync", 0, "")>>
                     /\ UNCHANGED <<repos, idx, pos, processedCount, skippedCount, summary>>
                [] r.outcome = "continue" ->
                     /\ logs' = <<>>
                     /\ UNCHANGED <<pc, repos, idx, pos, processedCount, skippedCount, summary>>
                [] r.outcome = "return" ->
                     /\ repos' = Some(r.repos)
                     /\ logs' = <<Log("info", "found", 0, Len(r.repos))>>
                     /\ NextRepo(r.repos, 0, 0, 0)
    /\ UNCHANGED config

\* Variant: the appliers run for a repository whatever the filter returned.
Filter_appliesAnyway ==
    /\ pc = "filter"
    /\ \E obj \in RepoObjects, resp \in Answers(Truthy(filters.label), LabelResponses) :
        LET repo == repos.val[idx]
            r == shouldProcessRepository(repo, obj, filters, resp)
        IN /\ calls' = r.calls
           /\ env' = [handler |-> "shouldProcessRepository", repo |-> repo, k |-> 0,
                       object |-> obj, result |-> r.outcome]
           /\ IF r.outcome = "throw"
              THEN /\ pc' = "fatal"
                   /\ logs' = r.logs \o <<Log("error", "sync", 0, "")>>
                   /\ UNCHANGED <<idx, pos, processedCount, skippedCount, summary>>
              ELSE /\ pc' = "apply"
                   /\ pos' = 1
                   /\ logs' = r.logs
                   /\ UNCHANGED <<idx, processedCount, skippedCount, summary>>
    /\ listed' = <<>>
    /\ UNCHANGED <<config, page, acc, repos>>

\* await shouldProcessRepository(octokit, repo, filters)
Filter ==
    /\ pc = "filter"
    /\ \E obj \in RepoObjects, resp \in Answers(Truthy(filters.label), LabelResponses) :
        LET repo == repos.val[idx]
            r == shouldProcessRepository(repo, obj, filters, resp)
        IN /\ calls' = r.calls
           /\ env' = [handler |-> "shouldProcessRepository", repo |-> repo, k |-> 0,
                       object |-> obj, result |-> r.outcome]
           /\ CASE r.outcome = "throw" ->
                     /\ pc' = "fatal"
                     /\ logs' = r.logs \o <<Log("error", "sync", 0, "")>>
                     /\ UNCHANGED <<idx, pos, processedCount, skippedCount, summary>>
                [] r.outcome = "true" ->
                     /\ pc' = "apply"
                     /\ pos' = 1
                     /\ logs' = r.logs
                     /\ UNCHANGED <<idx, processedCount, skippedCount, summary>>
                [] r.outcome = "false" ->
                     /\ logs' = r.logs
                     /\ NextRepo(repos.val, idx, processedCount, skippedCount + 1)
    /\ listed' = <<>>
    /\ UNCHANGED <<config, page, acc, repos>>

Awaiting(domain) == pc = "apply" /\ Plan(settings)[pos].domain = domain

\* The remote already holds the desired value (remoteSatisfies).
SettingsSatisfied(current, desired) ==
    \A key \in DOMAIN desired : key \in DOMAIN current /\ current[key] = desired[key]
CollaboratorsSatisfied(current, desired) ==
    \A i \in 1..Len(desired) : \E j \in 1..Len(current) :
        current[j].login = desired[i].username /\ current[j].role_name = desired[i].role
FileSatisfied(resp, local) ==
    resp.ok /\ resp.data.type = "file" /\ Base64Decode(resp.data.content) = local

\* await updateRepositorySettings(octokit, org, repo.name, settings, dryRun)
ApplySettings ==
    /\ Awaiting("settings")
    /\ \E resp \in Answers(settings.repository.set, SettingsResponses),
          updateOk \in Outcomes(~dryRun) :
        /\ (remoteSatisfies /\ settings.repository.set /\ resp.ok)
              => SettingsSatisfied(resp.data, settings.repository.val)
        /\ LET r == updateRepositorySettings(repos.val[idx], settings, dryRun, resp, updateOk)
           IN /\ calls' = r.calls
              /\ env' = Handler("updateRepositorySettings", repos.val[idx])
              /\ Advance(r.logs)
    /\ listed' = <<>>
    /\ UNCHANGED <<config, page, acc, repos>>

\* await updateRepositoryCollaborators(octokit, org, repo.name, settings.collaborators, dryRun)
ApplyCollaborators ==
    /\ Awaiting("collaborators")
    /\ \E resp \in CollaboratorResponses,
          oks \in [1..Len(settings.collaborators.val) -> Outcomes(~dryRun)] :
        /\ (remoteSatisfies /\ resp.ok)
              => CollaboratorsSatisfied(resp.data, settings.collaborators.val)
        /\ LET r == updateRepositoryCollaborators(repos.val[idx], settings.collaborators.val,
                                                  dryRun, resp, oks)
           IN /\ calls' = r.calls
              /\ env' = Handler("updateRepositoryCollaborators", repos.val[idx])
              /\ Advance(r.logs)
    /\ listed' = <<>>
    /\ UNCHANGED <<config, page, acc, repos>>

\* await updateBranchProtection(octokit, org, repo.name, branch, protection, dryRun)
ApplyBranchProtection ==
    /\ Awaiting("branch")
    /\ \E rule \in RemoteRules, ok \in Outcomes(~dryRun) :
        LET entry == settings.branch_protection.val[Plan(settings)[pos].k]
        IN /\ remoteSatisfies => rule = entry.protection
           /\ LET r == updateBranchProtection(repos.val[idx], entry.branch, entry.protection,
                                              dryRun, ok)
              IN /\ calls' = r.calls
                 /\ env' = [handler |-> "updateBranchProtection", repo |-> repos.val[idx],
                             k |-> Plan(settings)[pos].k, rule |-> rule]
                 /\ Advance(r.logs)
    /\ listed' = <<>>
    /\ UNCHANGED <<config, page, acc, repos>>

\* await syncFileContent(octokit, org, repo.name, fileSync, dryRun)
ApplyFile ==
    /\ Awaiting("files")
    /\ \E local \in ReadResponses : \E resp \in Answers(local.ok, ContentResponses),
                                   ok \in Outcomes(~dryRun /\ local.ok) :
        LET fileSync == settings.files.val[Plan(settings)[pos].k]
        IN /\ (remoteSatisfies /\ local.ok) => FileSatisfied(resp, local.data)
           /\ LET r == syncFileContent(repos.val[idx], fileSync, dryRun, local, resp, ok)
              IN /\ calls' = r.calls
                 /\ env' = [handler |-> "syncFileContent", repo |-> repos.val[idx],
                             k |-> Plan(settings)[pos].k]
                 /\ Advance(r.logs)
    /\ listed' = <<>>
    /\ UNCHANGED <<config, page, acc, repos>>

Next ==
    \/ ListPage
    \/ Filter
    \/ ApplySettings
    \/ ApplyCollaborators
    \/ ApplyBranchProtection
    \/ ApplyFile

Spec == Init /\ [][Next]_vars

\* Every awaited call eventually returns, with a result or an error, so an
\* enabled handler step is eventually taken.
FairSpec == Spec /\ WF_vars(Next)

\* ------------------------------------------------------------ bin.js
\* The action of the command: its options, the environment and the settings
\* file are its inputs.  (commander itself rejects a command line without
\* --org or --settings before the action runs; the action is modelled for
\* every options object, as its own checks are written.)
OrgOptions == {Unset, "acme"}
TokenOptions == {Unset, "t0"}
EnvValues == {Unset, "e0"}
\* The settings file: missing, or its text.
SettingsFiles == {"ENOENT", "not json", "null", "{}", "[]", "settings"}
NoSettings == [repository |-> Absent, collaborators |-> Absent,
               branch_protection |-> Absent, files |-> Absent]
FileSettings == [repository |-> Some(DesiredRepository), collaborators |-> Absent,
                 branch_protection |-> Absent, files |-> Absent]
\* JSON.parse of the file's text: it throws, or returns a value with its
\* Object.keys (which throws on null).
JSONparse(text) ==
    CASE text = "not json" -> [threw |-> TRUE]
      [] text = "null" -> [threw |-> FALSE, keysThrow |-> TRUE]
      [] text \in {"{}", "[]"} -> [threw |-> FALSE, keysThrow |-> FALSE, keys |-> 0,
                                   value |-> NoSettings]
      [] text = "settings" -> [threw |-> FALSE, keysThrow |-> FALSE, keys |-> 1,
                               value |-> FileSettings]
\* Variant: a settings object without keys is handed to syncSettings.
LoadSettings_acceptsEmpty(file) ==
    IF file = "ENOENT" THEN [outcome |-> "error", message |-> "Error reading settings file"]
    ELSE LET parsed == JSONparse(file)
         IN IF parsed.threw \/ parsed.keysThrow
            THEN [outcome |-> "error", message |-> "Error reading settings file"]
            ELSE [outcome |-> "sync", settings |-> parsed.value]

\* The try block up to the call of syncSettings.
LoadSettings(file) ==
    IF file = "ENOENT" THEN [outcome |-> "error", message |-> "Error reading settings file"]
    ELSE LET parsed == JSONparse(file)
         IN IF parsed.threw \/ parsed.keysThrow
            THEN [outcome |-> "error", message |-> "Error reading settings file"]
            ELSE IF parsed.keys = 0
            THEN [outcome |-> "error", message |-> "Settings file is empty"]
            ELSE [outcome |-> "sync", settings |-> parsed.value]

Exit(code, message) ==
    cli' = [cli EXCEPT !.stage = "exited", !.exit = code,
                       !.errors = IF message = "" THEN @ ELSE Append(@, message)]

CliInit ==
    /\ cli \in [stage : {"start"}, org : OrgOptions, envOrg : EnvValues,
                token : TokenOptions, envToken : EnvValues, file : SettingsFiles,
                dryRunOption : {Unset, "true"}, namePattern : {Unset, "^svc-"},
                exit : {-1}, errors : {<<>>}, syncCalls : {0}]
    /\ dryRun = FALSE
    /\ filters = [namePattern |-> Unset, language |-> Unset, label |-> Unset]
    /\ settings = NoSettings
    /\ remoteSatisfies = FALSE
    /\ pc = "idle"
    /\ page = 1
    /\ acc = <<>>
    /\ listed = <<>>
    /\ repos = Absent
    /\ idx = 0
    /\ pos = 0
    /\ processedCount = 0
    /\ skippedCount = 0
    /\ summary = Absent
    /\ calls = <<>>
    /\ logs = <<>>
    /\ env = Handler("none", 0)
    /\ remote = Untracked

\* From the start of the action to its first await (fs.readFile).
CliValidate ==
    /\ cli.stage = "start"
    /\ LET org == IF Truthy(cli.org) THEN cli.org ELSE cli.envOrg
       IN IF ~Truthy(org)
          THEN Exit(1, "Organization name is required")
          ELSE IF ~Truthy(cli.token) /\ ~Truthy(cli.envToken)
          THEN Exit(1, "GitHub token is required")
          ELSE cli' = [cli EXCEPT !.stage = "read"]
    /\ UNCHANGED <<dryRun, filters, settings, remoteSatisfies, remote, pc, page, acc, listed, repos,
                   idx, pos, processedCount, skippedCount, summary, calls, logs, env>>

\* From the return of fs.readFile to the call of syncSettings, or to the exit.
CliLoad ==
    /\ cli.stage = "read"
    /\ LET r == LoadSettings(cli.file)
       IN IF r.outcome = "sync"
          THEN /\ cli' = [cli EXCEPT !.stage = "sync", !.syncCalls = @ + 1]
               /\ settings' = r.settings
               /\ filters' = [namePattern |-> cli.namePattern, label |-> Unset,
                              language |-> Unset]
               /\ dryRun' = Truthy(cli.dryRunOption)
               /\ pc' = "list"
          ELSE /\ Exit(1, r.message)
               /\ UNCHANGED <<settings, filters, dryRun, pc>>
    /\ UNCHANGED <<remoteSatisfies, remote, page, acc, listed, repos, idx, pos, processedCount,
                   skippedCount, summary, calls, logs, env>>

\* syncSettings settles: it returned after the summary, or it ended the
\* process itself on its fatal path.
CliSyncSettles ==
    /\ cli.stage = "sync"
    /\ \E fatal \in BOOLEAN :
        /\ pc' = (IF fatal THEN "fatal" ELSE "done")
        /\ Exit(IF fatal THEN 1 ELSE 0, "")
    /\ UNCHANGED <<dryRun, filters, settings, remoteSatisfies, remote, page, acc, listed, repos,
                   idx, pos, processedCount, skippedCount, summary, calls, logs, env>>

CliNext ==
    \/ CliValidate
    \/ CliLoad
    \/ CliSyncSettles

CliSpec == CliInit /\ [][CliNext]_vars

\* ------------------------------------------------------------ getSettingsDiff
\* getSettingsDiff on its own, for desired sections whose values are a
\* boolean and a nested object, and for current settings that hold the same
\* keys or miss some of them; a nested object comes with its two members in
\* either order.
MemberOrders == {<<"advanced_security", "secret_scanning">>,
                 <<"secret_scanning", "advanced_security">>}
NestedValues ==
    {JObject(<<[key |-> o[1], value |-> x], [key |-> o[2], value |-> y]>>) :
        o \in MemberOrders, x \in BOOLEAN, y \in BOOLEAN}
DiffDesiredSet ==
    {[has_wiki |-> JBoolean(w), security_and_analysis |-> n] :
        w \in BOOLEAN, n \in NestedValues}
DiffCurrentSet ==
    {[key \in present \cup {"private"} |->
         CASE key = "has_wiki" -> JBoolean(w)
           [] key = "security_and_analysis" -> n
           [] OTHER -> JBoolean(TRUE)] :
        present \in SUBSET {"has_wiki", "security_and_analysis"},
        w \in BOOLEAN, n \in NestedValues}

DiffInit ==
    /\ dryRun = FALSE
    /\ filters = [namePattern |-> Unset, language |-> Unset, label |-> Unset]
    /\ \E desired \in DiffDesiredSet :
          settings = [repository |-> Some(desired), collaborators |-> Absent,
                      branch_protection |-> Absent, files |-> Absent]
    /\ remoteSatisfies = FALSE
    /\ pc = "diff"
    /\ page = 1
    /\ acc = <<>>
    /\ listed = <<>>
    /\ repos = Absent
    /\ idx = 0
    /\ pos = 0
    /\ processedCount = 0
    /\ skippedCount = 0
    /\ summary = Absent
    /\ calls = <<>>
    /\ logs = <<>>
    /\ env = Handler("none", 0)
    /\ cli = DirectCall
    /\ remote = Untracked

\* const settingsDiff = getSettingsDiff(currentSettings, settings.repository)
DiffCompute ==
    /\ pc = "diff"
    /\ \E current \in DiffCurrentSet :
          env' = [handler |-> "getSettingsDiff", repo |-> 0, k |-> 0, current |-> current,
                  diff |-> getSettingsDiff(current, settings.repository.val)]
    /\ pc' = "done"
    /\ UNCHANGED <<config, page, acc, listed, repos, idx, pos, processedCount, skippedCount,
                   summary, calls, logs>>

DiffSpec == DiffInit /\ [][DiffCompute]_vars

\* ------------------------------------------------------------ two runs
\* Two live runs of syncSettings, one after the other, over one repository
\* that passes the filter, against a remote that keeps what it is sent:
\* every call succeeds, the remote changes only by the calls made, and the
\* local files are the same in both runs.  The remote's contents are drawn
\* when the first run reads them.  A stored settings object is a JSON
\* object: repos.get may answer its members in any order.
NestedDesiredRepository ==
    [has_wiki |-> JBoolean(FALSE),
     security_and_analysis |->
         JObject(<<[key |-> "advanced_security", value |-> TRUE],
                   [key |-> "secret_scanning", value |-> TRUE]>>)]
ConvergeSettingsSet ==
    [repository : RepositorySections \cup {Some(NestedDesiredRepository)},
     collaborators : CollaboratorSections,
     branch_protection : BranchSections, files : FileSections]
InitialSettings ==
    CurrentSettingsSet
    \cup {[has_wiki |-> JBoolean(w), private |-> JBoolean(TRUE), security_and_analysis |-> n] :
             w \in BOOLEAN, n \in NestedValues}
InitialObjects ==
    {[type |-> "missing"], [type |-> "dir"]}
    \cup {[type |-> "file", content |-> Base64Encode(c), sha |-> BlobSha(c)] : c \in Contents}

\* The answers repos.get may give for the stored settings.
Reorder(v) == JObject([i \in 1..Len(v.v) |-> v.v[Len(v.v) + 1 - i]])
Views(stored) ==
    {[key \in DOMAIN stored |-> IF key \in flipped THEN Reorder(stored[key]) ELSE stored[key]] :
        flipped \in SUBSET {key \in DOMAIN stored : stored[key].t = "object"}}
\* The answer repos.getContent gives for a stored object.
ContentAnswer(object) ==
    IF object.type = "missing" THEN [ok |-> FALSE, status |-> 404]
    ELSE [ok |-> TRUE, data |-> object]

\* The remote after the calls cs of one handler.
AfterSettings(stored, cs) ==
    IF \E c \in 1..Len(cs) : cs[c].op = "repos.update"
    THEN LET sent == cs[CHOOSE c \in 1..Len(cs) : cs[c].op = "repos.update"].arg
         IN [key \in DOMAIN stored \cup DOMAIN sent |->
                IF key \in DOMAIN sent THEN sent[key] ELSE stored[key]]
    ELSE stored
SetPermission(list, username, permission) ==
    IF \E j \in 1..Len(list) : list[j].login = username
    THEN [j \in 1..Len(list) |->
             IF list[j].login = username
             THEN [login |-> username, role_name |-> permission] ELSE list[j]]
    ELSE Append(list, [login |-> username, role_name |-> permission])
RECURSIVE AfterCollaborators(_, _)
AfterCollaborators(list, cs) ==
    IF cs = <<>> THEN list
    ELSE AfterCollaborators(
             IF Head(cs).op = "repos.addCollaborator"
             THEN SetPermission(list, Head(cs).arg.username, Head(cs).arg.permission)
             ELSE list,
             Tail(cs))
AfterFile(object, cs) ==
    IF \E c \in 1..Len(cs) : cs[c].op = "repos.createOrUpdateFileContents"
    THEN LET sent == cs[CHOOSE c \in 1..Len(cs) :
                           cs[c].op = "repos.createOrUpdateFileContents"].arg
         IN [type |-> "file", content |-> sent.content,
             sha |-> BlobSha(Base64Decode(sent.content))]
    ELSE object

ConvergeInit ==
    /\ dryRun = FALSE
    /\ filters = [namePattern |-> Unset, language |-> Unset, label |-> Unset]
    /\ settings \in ConvergeSettingsSet
    /\ remoteSatisfies = FALSE
    /\ pc = "apply"
    /\ page = 1
    /\ acc = <<>>
    /\ listed = <<>>
    /\ repos = Some(<<1>>)
    /\ idx = 1
    /\ pos = 1
    /\ processedCount = 0
    /\ skippedCount = 0
    /\ summary = Absent
    /\ calls = <<>>
    /\ logs = <<>>
    /\ env = Handler("none", 0)
    /\ cli = DirectCall
    /\ remote = [run |-> 1, settings |-> Absent, collaborators |-> Absent,
                 files |-> [k \in 1..Len(DesiredFiles) |-> Absent],
                 local |-> [k \in 1..Len(DesiredFiles) |-> Absent]]

\* await updateRepositorySettings(...), answered from the remote's contents.
ConvergeSettings ==
    /\ Awaiting("settings")
    /\ \E resp \in (IF ~settings.repository.set THEN {[ok |-> FALSE]}
                    ELSE {[ok |-> TRUE, data |-> c] :
                            c \in IF remote.settings.set THEN Views(remote.settings.val)
                                  ELSE InitialSettings}) :
        LET r == updateRepositorySettings(repos.val[idx], settings, dryRun, resp, TRUE)
        IN /\ calls' = r.calls
           /\ env' = Handler("updateRepositorySettings", repos.val[idx])
           /\ Advance(r.logs)
           /\ remote' = IF settings.repository.set
                        THEN [remote EXCEPT !.settings = Some(AfterSettings(resp.data, r.calls))]
                        ELSE remote
    /\ listed' = <<>>
    /\ UNCHANGED <<dryRun, filters, settings, remoteSatisfies, cli, page, acc, repos>>

\* await updateRepositoryCollaborators(...), answered from the remote's contents.
ConvergeCollaborators ==
    /\ Awaiting("collaborators")
    /\ \E list \in (IF remote.collaborators.set THEN {remote.collaborators.val}
                    ELSE CurrentCollaboratorLists) :
        LET r == updateRepositoryCollaborators(
                     repos.val[idx], settings.collaborators.val, dryRun,
                     [ok |-> TRUE, data |-> list],
                     [i \in 1..Len(settings.collaborators.val) |-> TRUE])
        IN /\ calls' = r.calls
           /\ env' = Handler("updateRepositoryCollaborators", repos.val[idx])
           /\ Advance(r.logs)
           /\ remote' = [remote EXCEPT !.collaborators = Some(AfterCollaborators(list, r.calls))]
    /\ listed' = <<>>
    /\ UNCHANGED <<dryRun, filters, settings, remoteSatisfies, cli, page, acc, repos>>

\* await updateBranchProtection(...): the remote's rule is never read.
ConvergeBranchProtection ==
    /\ Awaiting("branch")
    /\ LET entry == settings.branch_protection.val[Plan(settings)[pos].k]
           r == updateBranchProtection(repos.val[idx], entry.branch, entry.protection,
                                       dryRun, TRUE)
       IN /\ calls' = r.calls
          /\ env' = [handler |-> "updateBranchProtection", repo |-> repos.val[idx],
                      k |-> Plan(settings)[pos].k, rule |-> entry.protection]
          /\ Advance(r.logs)
    /\ listed' = <<>>
    /\ UNCHANGED <<dryRun, filters, settings, remoteSatisfies, cli, remote, page, acc, repos>>

\* await syncFileContent(...), answered from the local file and the remote's contents.
ConvergeFile ==
    /\ Awaiting("files")
    /\ LET k == Plan(settings)[pos].k
       IN \E content \in (IF remote.local[k].set THEN {remote.local[k].val} ELSE Contents),
             object \in (IF remote.files[k].set THEN {remote.files[k].val}
                         ELSE InitialObjects) :
           LET r == syncFileContent(repos.val[idx], settings.files.val[k], dryRun,
                                    [ok |-> TRUE, data |-> content], ContentAnswer(object), TRUE)
           IN /\ calls' = r.calls
              /\ env' = [handler |-> "syncFileContent", repo |-> repos.val[idx], k |-> k]
              /\ Advance(r.logs)
              /\ remote' = [remote EXCEPT !.local[k] = Some(content),
                                          !.files[k] = Some(AfterFile(object, r.calls))]
    /\ listed' = <<>>
    /\ UNCHANGED <<dryRun, filters, settings, remoteSatisfies, cli, page, acc, repos>>

\* syncSettings is called a second time with the same arguments; the listing
\* and the filter give the same one repository.
ConvergeSecondRun ==
    /\ pc = "done" /\ remote.run = 1
    /\ remote' = [remote EXCEPT !.run = 2]
    /\ pc' = "apply"
    /\ idx' = 1
    /\ pos' = 1
    /\ processedCount' = 0
    /\ skippedCount' = 0
    /\ summary' = Absent
    /\ calls' = <<>>
    /\ logs' = <<>>
    /\ env' = Handler("none", 0)
    /\ UNCHANGED <<dryRun, filters, settings, remoteSatisfies, cli, page, acc, listed, repos>>

ConvergeNext ==
    \/ ConvergeSettings
    \/ ConvergeCollaborators
    \/ ConvergeBranchProtection
    \/ ConvergeFile
    \/ ConvergeSecondRun

ConvergeSpec == ConvergeInit /\ [][ConvergeNext]_vars

\* ------------------------------------------------------------ one collaborators pass
\* updateRepositoryCollaborators on its own, for desired lists that are
\* empty, that name a username twice (with the same role or with two
\* roles), and for the desired list of the runs above.
SnapshotDesiredLists ==
    {<<>>,
     DesiredCollaborators,
     <<[username |-> "erin", role |-> "read"], [username |-> "erin", role |-> "read"]>>,
     <<[username |-> "erin", role |-> "read"], [username |-> "bob", role |-> "write"],
       [username |-> "erin", role |-> "admin"]>>,
     <<[username |-> "alice", role |-> "admin"], [username |-> "alice", role |-> "write"]>>}
SnapshotInit ==
    /\ dryRun \in BOOLEAN
    /\ filters = [namePattern |-> Unset, language |-> Unset, label |-> Unset]
    /\ \E desired \in SnapshotDesiredLists :
          settings = [repository |-> Absent, collaborators |-> Some(desired),
                      branch_protection |-> Absent, files |-> Absent]
    /\ remoteSatisfies = FALSE
    /\ pc = "apply"
    /\ page = 1
    /\ acc = <<>>
    /\ listed = <<>>
    /\ repos = Some(<<1>>)
    /\ idx = 1
    /\ pos = 2
    /\ processedCount = 0
    /\ skippedCount = 0
    /\ summary = Absent
    /\ calls = <<>>
    /\ logs = <<>>
    /\ env = Handler("updateRepositorySettings", 1)
    /\ cli = DirectCall
    /\ remote = Untracked

SnapshotSpec == SnapshotInit /\ [][ApplyCollaborators]_vars

\* ============================================================ properties
FilterRan == env.handler = "shouldProcessRepository"
ReadOps == {"repos.listForOrg", "issues.listLabelsForRepo", "repos.get",
            "repos.listCollaborators", "repos.getContent", "fs.readFile"}
ReadsSucceeded(cs) == \A i \in 1..Len(cs) : cs[i].op \in ReadOps => cs[i].ok
HasCall(cs, op) == \E i \in 1..Len(cs) : cs[i].op = op

\* C1. Dry-run purity: in a run started with dryRun = true no handler, for
\* any configuration, listing, filter or pattern of read failures, issues a
\* mutating remote call.
DryRunPurity == dryRun => Mutations(calls) = <<>>

\* C1 witness: a dry run reaches a point where a change is previewed.
DryRunPurityWitness ==
    dryRun /\ \E i \in 1..Len(logs) : logs[i].cat = "preview"

\* C2. Idempotence: when the remote already satisfies the desired
\* configuration in every domain (and every read succeeds), a live run
\* issues no mutating call.
Idempotence ==
    (~dryRun /\ remoteSatisfies /\ ReadsSucceeded(calls)) => Mutations(calls) = <<>>

\* C3. No-removal: no remove/revoke/delete call is ever issued, and every
\* mutating call targets a desired username, a desired branch or a desired
\* file path (the settings update: the repository itself).
RemoveOps == {"repos.removeCollaborator", "repos.deleteBranchProtection", "repos.deleteFile"}
TargetsDesired(c) ==
    CASE c.op = "repos.addCollaborator" ->
           /\ settings.collaborators.set
           /\ \E i \in 1..Len(settings.collaborators.val) :
                 settings.collaborators.val[i].username = c.arg.username
      [] c.op = "repos.updateBranchProtection" ->
           /\ settings.branch_protection.set
           /\ \E i \in 1..Len(settings.branch_protection.val) :
                 settings.branch_protection.val[i].branch = c.arg.branch
      [] c.op = "repos.createOrUpdateFileContents" ->
           /\ settings.files.set
           /\ \E i \in 1..Len(settings.files.val) : settings.files.val[i].path = c.arg.path
      [] c.op = "repos.update" -> settings.repository.set
      [] OTHER -> FALSE
NoRemoval ==
    \A i \in 1..Len(calls) :
        /\ calls[i].op \notin RemoveOps
        /\ calls[i].op \in ReadOps \cup MutatingOps
        /\ IsMutating(calls[i]) => TargetsDesired(calls[i])

\* C3 witness: the remote lists a collaborator the configuration does not
\* mention (carol) and the handler issues a set-permission call.
NoRemovalWitness ==
    /\ HasCall(calls, "repos.addCollaborator")
    /\ calls[1].op = "repos.listCollaborators" /\ calls[1].ok
    /\ \E j \in 1..Len(calls[1].res) : calls[1].res[j].login = "carol"

\* C4. Diff minimality: a settings update carries exactly the desired keys
\* whose desired value differs from the fetched current value, each with its
\* desired value.
DiffMinimality ==
    \A i \in 1..Len(calls) :
        calls[i].op = "repos.update" =>
            /\ settings.repository.set
            /\ calls[1].op = "repos.get" /\ calls[1].ok
            /\ LET current == calls[1].res
                   desired == settings.repository.val
               IN /\ DOMAIN calls[i].arg =
                        {key \in DOMAIN desired :
                            key \notin DOMAIN current \/ current[key] # desired[key]}
                  /\ \A key \in DOMAIN calls[i].arg : calls[i].arg[key] = desired[key]

\* C4 witness: an update that carries one of the two desired keys, while the
\* current settings hold a key (private) the configuration does not mention.
DiffMinimalityWitness ==
    \E i \in 1..Len(calls) :
        /\ calls[i].op = "repos.update"
        /\ DOMAIN calls[i].arg = {"has_issues"}
        /\ "private" \in DOMAIN calls[1].res

\* C5. Filter AND semantics: with at least one filter option set,
\* shouldProcessRepository returns true iff the repository is not archived and
\* passes every set predicate, and returns false otherwise (for a name
\* pattern that is a well-formed regular expression).
FetchedLabels ==
    IF HasCall(calls, "issues.listLabelsForRepo") /\ calls[1].ok
    THEN {calls[1].res[i].name : i \in 1..Len(calls[1].res)}
    ELSE {}
PassesAll(obj, f) ==
    /\ ~obj.archived
    /\ Truthy(f.namePattern) => (RegExpValid(f.namePattern) /\ RegExpTest(f.namePattern, obj.name))
    /\ Truthy(f.language) =>
          (obj.language # Null /\ toLowerCase(obj.language) = toLowerCase(f.language))
    /\ Truthy(f.label) => f.label \in FetchedLabels
FilterAndSemantics ==
    (FilterRan /\ ~NoFilters(filters)) =>
        /\ (env.result = "true") <=> PassesAll(env.object, filters)
        /\ (Truthy(filters.namePattern) => RegExpValid(filters.namePattern))
              => env.result \in {"true", "false"}

\* C5 witness: all three options set and the repository passes all of them.
FilterAndSemanticsWitness ==
    /\ FilterRan /\ env.result = "true"
    /\ Truthy(filters.namePattern) /\ Truthy(filters.language) /\ Truthy(filters.label)

\* C6. Empty filter passthrough: with no filter option set,
\* shouldProcessRepository returns true for every repository, archived ones
\* included, and fetches no labels.
EmptyFilterPassthrough ==
    (FilterRan /\ NoFilters(filters)) => (env.result = "true" /\ calls = <<>>)

\* C6 witness: an archived repository passes the empty filter.
EmptyFilterPassthroughWitness ==
    FilterRan /\ NoFilters(filters) /\ env.object.archived /\ pc = "apply"

\* C7. Failure containment: syncSettings reaches its fatal abort only through
\* a failure of the repository listing.
FailureContainment ==
    pc = "fatal" =>
        /\ env.handler = "getRepositories"
        /\ calls # <<>> /\ calls[Len(calls)].op = "repos.listForOrg" /\ ~calls[Len(calls)].ok

\* C8. Fatal enumeration: a failed listing call, on whatever page, leaves
\* syncSettings in fatal abort with no repository list, no filter evaluation,
\* no applier call and no summary.
ListingFailed == \E i \in 1..Len(listed) : ~listed[i].ok
FatalEnumeration ==
    ListingFailed =>
        /\ pc = "fatal"
        /\ ~repos.set
        /\ idx = 0 /\ pos = 0
        /\ processedCount = 0 /\ skippedCount = 0
        /\ ~summary.set
        /\ env.handler = "getRepositories"
        /\ Len(calls) = 1 /\ calls[1].op = "repos.listForOrg"
        /\ logs # <<>> /\ logs[Len(logs)].cat = "error"

\* C8 witness: the listing fails on a later page, after a non-empty one.
FatalEnumerationWitness ==
    /\ Len(listed) >= 2
    /\ listed[1].ok /\ listed[1].data # <<>>
    /\ ~listed[Len(listed)].ok

\* C9. Enumerator completeness: pages 1, 2, 3, ... are requested in order with
\* page size 100; the loop goes on exactly while pages are non-empty; the
\* result is the concatenation of the pages, nothing dropped or duplicated.
RECURSIVE Flatten(_)
Flatten(pages) ==
    IF pages = <<>> THEN <<>> ELSE Head(pages).data \o Flatten(Tail(pages))
EnumeratorCompleteness ==
    /\ \A i \in 1..Len(listed) : listed[i].page = i
    /\ env.handler = "getRepositories" =>
          /\ Len(calls) = 1
          /\ calls[1].arg.per_page = 100
          /\ calls[1].arg.page = Len(listed)
    /\ pc = "list" => \A i \in 1..Len(listed) : listed[i].ok /\ listed[i].data # <<>>
    /\ (repos.set /\ env.handler = "getRepositories") =>
          /\ \A i \in 1..Len(listed) : listed[i].ok
          /\ \A i \in 1..(Len(listed) - 1) : listed[i].data # <<>>
          /\ listed[Len(listed)].data = <<>>
          /\ repos.val = Flatten(listed)
          /\ Cardinality(Range(repos.val)) = Len(repos.val)

\* C9 witness: two non-empty pages cost three requests.
EnumeratorCompletenessWitness ==
    repos.set /\ env.handler = "getRepositories" /\ Len(listed) = 3 /\ Len(repos.val) = 2

\* C10. Fixed domain order: for a matching repository the handlers run as
\* settings, collaborators (if present), every branch in mapping order, every
\* file in list order; each starts only when the one before has returned,
\* whatever its outcome, and the loop moves on only after the last of them.
ExpectedOrder(s) ==
    <<<<"updateRepositorySettings", 0>>>>
    \o (IF s.collaborators.set THEN <<<<"updateRepositoryCollaborators", 0>>>> ELSE <<>>)
    \o (IF s.branch_protection.set
        THEN [k \in 1..Len(s.branch_protection.val) |-> <<"updateBranchProtection", k>>]
        ELSE <<>>)
    \o (IF s.files.set
        THEN [k \in 1..Len(s.files.val) |-> <<"syncFileContent", k>>]
        ELSE <<>>)
Appliers == {"updateRepositorySettings", "updateRepositoryCollaborators",
             "updateBranchProtection", "syncFileContent"}
OrderIndex(e) ==
    LET order == ExpectedOrder(settings)
        hits == {t \in 1..Len(order) : order[t] = <<e.handler, e.k>>}
    IN IF hits = {} THEN 0 ELSE CHOOSE t \in hits : TRUE
HandlerOps(h) ==
    CASE h = "updateRepositorySettings" -> {"repos.get", "repos.update"}
      [] h = "updateRepositoryCollaborators" -> {"repos.listCollaborators", "repos.addCollaborator"}
      [] h = "updateBranchProtection" -> {"repos.updateBranchProtection"}
      [] h = "syncFileContent" -> {"fs.readFile", "repos.getContent",
                                   "repos.createOrUpdateFileContents"}
      [] h = "shouldProcessRepository" -> {"issues.listLabelsForRepo"}
      [] OTHER -> {"repos.listForOrg"}
ItemOf(c) ==
    CASE c.op = "repos.updateBranchProtection" -> c.arg.branch
      [] c.op \in {"repos.getContent", "repos.createOrUpdateFileContents"} -> c.arg.path
      [] c.op = "fs.readFile" -> c.arg.path
      [] OTHER -> ""
ExpectedItems(e) ==
    CASE e.handler = "updateBranchProtection" ->
           {"", settings.branch_protection.val[e.k].branch}
      [] e.handler = "syncFileContent" ->
           {"", settings.files.val[e.k].path, settings.files.val[e.k].localPath}
      [] OTHER -> {""}
HandlerStep ==
    /\ env'.handler \in Appliers =>
          /\ \A i \in 1..Len(calls') :
                /\ calls'[i].repo = env'.repo
                /\ calls'[i].op \in HandlerOps(env'.handler)
                /\ ItemOf(calls'[i]) \in ExpectedItems(env')
          /\ OrderIndex(env') >= 1
          /\ IF env.handler \in Appliers /\ env.repo = env'.repo
             THEN OrderIndex(env') = OrderIndex(env) + 1
             ELSE /\ env.handler = "shouldProcessRepository"
                  /\ env.repo = env'.repo /\ env.result = "true"
                  /\ OrderIndex(env') = 1
    /\ (env.handler \in Appliers /\ (env'.handler \notin Appliers \/ env'.repo # env.repo)) =>
          OrderIndex(env) = Len(ExpectedOrder(settings))
FixedDomainOrder == [][env' # env => HandlerStep]_vars

\* C10 witness: with all four sections present the second file, the last
\* handler of the order, has run.
FixedDomainOrderWitness ==
    /\ settings.repository.set /\ settings.collaborators.set
    /\ settings.branch_protection.set /\ settings.files.set
    /\ env.handler = "syncFileContent" /\ env.k = 2

\* C11. Collaborator classification: in a live run, against the fetched
\* current list, every desired entry {username, role} gets exactly one
\* set-permission call carrying its role when the username is absent (Add) or
\* present with another role (Update), and no call when it is present with
\* the same role (No-op); the log line tells Add from Update.
CollaboratorsRan == env.handler = "updateRepositoryCollaborators"
Classify(entry, current) ==
    IF \A j \in 1..Len(current) : current[j].login # entry.username THEN "Add"
    ELSE IF \E j \in 1..Len(current) :
              current[j].login = entry.username /\ current[j].role_name = entry.role
    THEN "No-op"
    ELSE "Update"
SetPermissionCalls(username) ==
    SelectSeq(calls, LAMBDA c : c.op = "repos.addCollaborator" /\ c.arg.username = username)
CollaboratorLines(username, whats) ==
    SelectSeq(logs, LAMBDA l : l.what \in whats /\ l.item.username = username)
AddLines == {"added collaborator", "add collaborator"}
UpdateLines == {"updated role", "update role"}
CollaboratorClassification ==
    (CollaboratorsRan /\ ~dryRun /\ calls[1].ok) =>
        \A i \in 1..Len(settings.collaborators.val) :
            LET entry == settings.collaborators.val[i]
                class == Classify(entry, calls[1].res)
                sent == SetPermissionCalls(entry.username)
            IN /\ class \in {"Add", "Update"} =>
                    /\ Len(sent) = 1
                    /\ sent[1].arg.permission = entry.role
               /\ class = "No-op" => Len(sent) = 0
               /\ Len(CollaboratorLines(entry.username, AddLines)) =
                     (IF class = "Add" THEN 1 ELSE 0)
               /\ Len(CollaboratorLines(entry.username, UpdateLines)) =
                     (IF class = "Update" THEN 1 ELSE 0)

\* C11 witness: desired alice=admin against current alice=write (bob as
\* desired): one Update call for alice and nothing else.
CollaboratorClassificationWitness ==
    /\ CollaboratorsRan /\ ~dryRun /\ Len(calls) = 2
    /\ calls[1].ok
    /\ \E j \in 1..Len(calls[1].res) :
          calls[1].res[j] = [login |-> "alice", role_name |-> "write"]
    /\ calls[2].op = "repos.addCollaborator"
    /\ calls[2].arg = [username |-> "alice", permission |-> "admin"]
    /\ logs[1].what \in UpdateLines

\* C12. Collaborator failure isolation: when the set-permission call of one
\* desired entry fails, an error line names that entry, and every later
\* entry of the desired list that needs Add or Update still gets its call,
\* after the failed one.
CurrentCollaborators == IF calls[1].ok THEN calls[1].res ELSE <<>>
DesiredIndex(username) ==
    CHOOSE i \in 1..Len(settings.collaborators.val) :
        settings.collaborators.val[i].username = username
CollaboratorFailureIsolation ==
    (CollaboratorsRan /\ ~dryRun) =>
        \A c \in 1..Len(calls) :
            (calls[c].op = "repos.addCollaborator" /\ ~calls[c].ok) =>
                /\ \E l \in 1..Len(logs) :
                      /\ logs[l].cat = "error"
                      /\ logs[l].item.username = calls[c].arg.username
                /\ \A j \in (DesiredIndex(calls[c].arg.username) + 1)
                               ..Len(settings.collaborators.val) :
                      LET later == settings.collaborators.val[j]
                      IN Classify(later, CurrentCollaborators) \in {"Add", "Update"} =>
                            \E d \in (c + 1)..Len(calls) :
                                /\ calls[d].op = "repos.addCollaborator"
                                /\ calls[d].arg.username = later.username
                                /\ calls[d].arg.permission = later.role

\* C12 witness: the call for the first entry fails and the call for the
\* second entry is issued all the same.
CollaboratorFailureIsolationWitness ==
    /\ CollaboratorsRan /\ ~dryRun /\ Len(calls) = 3
    /\ calls[2].op = "repos.addCollaborator" /\ ~calls[2].ok
    /\ calls[3].op = "repos.addCollaborator"
    /\ calls[3].arg.username # calls[2].arg.username

\* C13. Closed role enum: a desired collaborator whose role is not one of
\* admin, maintain, write, triage, read is never accepted: no set-permission
\* call carries such a role.
ClosedRoleEnum ==
    \A c \in 1..Len(calls) :
        calls[c].op = "repos.addCollaborator" => calls[c].arg.permission \in Roles

\* C14. Unconditional branch overwrite: in a live run every invocation of
\* updateBranchProtection, whatever protection the branch carries remotely,
\* issues exactly one call, the protection update carrying the whole desired
\* rule object of that branch, and no call ever reads the current protection.
BranchProtectionRan == env.handler = "updateBranchProtection"
ProtectionReadOps == {"repos.getBranchProtection", "repos.getBranch"}
FileRan == env.handler = "syncFileContent"
FileReadsSucceeded ==
    /\ Len(calls) >= 2
    /\ calls[1].op = "fs.readFile" /\ calls[1].ok
    /\ calls[2].op = "repos.getContent" /\ (calls[2].ok \/ calls[2].res.status = 404)
RemoteFilePresent == calls[2].ok /\ calls[2].res.type = "file"
NeedsUpsert == ~RemoteFilePresent \/ Base64Decode(calls[2].res.content) # calls[1].res
FileUpsertDecision ==
    (FileRan /\ ~dryRun /\ FileReadsSucceeded) =>
        IF NeedsUpsert
        THEN /\ Len(calls) = 3
             /\ calls[3].op = "repos.createOrUpdateFileContents"
             /\ calls[3].arg.path = settings.files.val[env.k].path
             /\ Base64Decode(calls[3].arg.content) = calls[1].res
        ELSE /\ Len(calls) = 2
             /\ \E l \in 1..Len(logs) : logs[l].cat = "skip"

\* C15 witness: the remote file is present with content other than the local one
\* and the update call is issued.
FileUpsertDecisionWitness ==
    /\ FileRan /\ ~dryRun /\ FileReadsSucceeded /\ RemoteFilePresent
    /\ Base64Decode(calls[2].res.content) # calls[1].res
    /\ Len(calls) = 3 /\ calls[3].op = "repos.createOrUpdateFileContents"

\* C16. Create versus update: an upsert call that follows a fetch which found
\* no file carries no sha and the message "Add <path>"; one that follows a
\* fetch which found a file carries the sha that fetch returned and the
\* message "Update <path>".
CreateVersusUpdate ==
    \A c \in 1..Len(calls) :
        calls[c].op = "repos.createOrUpdateFileContents" =>
            /\ c = 3 /\ calls[2].op = "repos.getContent"
            /\ calls[2].arg.path = calls[c].arg.path
            /\ IF RemoteFilePresent
               THEN /\ calls[c].arg.sha = calls[2].res.sha
                    /\ calls[c].arg.message = "Update " \o calls[c].arg.path
               ELSE /\ calls[c].arg.sha = Unset
                    /\ calls[c].arg.message = "Add " \o calls[c].arg.path

\* C16 witness: .gitignore is absent remotely (404) and is created with the
\* message "Add .gitignore" and no sha.
CreateVersusUpdateWitness ==
    /\ FileRan /\ Len(calls) = 3
    /\ ~calls[2].ok /\ calls[2].res.status = 404
    /\ calls[3].op = "repos.createOrUpdateFileContents"
    /\ calls[3].arg.path = ".gitignore"
    /\ calls[3].arg.message = "Add .gitignore"
    /\ calls[3].arg.sha = Unset

\* C17. Absent section means untouched: no call of a domain, read or write,
\* is issued for any repository when the domain's section is absent from the
\* configuration, and no applier of an absent section runs; the appliers of
\* the sections that are present all run before the repository is left.
SectionOf(op) ==
    CASE op \in {"repos.get", "repos.update"} -> settings.repository
      [] op \in {"repos.listCollaborators", "repos.addCollaborator"} -> settings.collaborators
      [] op \in {"repos.updateBranchProtection"} -> settings.branch_protection
      [] op \in {"fs.readFile", "repos.getContent", "repos.createOrUpdateFileContents"} ->
           settings.files
      [] OTHER -> Some("run")
AbsentSectionUntouched ==
    /\ \A c \in 1..Len(calls) : SectionOf(calls[c].op).set
    /\ CollaboratorsRan => settings.collaborators.set
    /\ BranchProtectionRan => settings.branch_protection.set
    /\ FileRan => settings.files.set
    /\ (env.handler \in Appliers /\ pc # "apply") =>
          OrderIndex(env) = Len(ExpectedOrder(settings))

\* C17 witness: only the files section is present, and a repository has
\* been processed with file calls issued.
AbsentSectionUntouchedWitness ==
    /\ ~settings.repository.set /\ ~settings.collaborators.set
    /\ ~settings.branch_protection.set /\ settings.files.set
    /\ FileRan /\ env.k = Len(settings.files.val) /\ pc # "apply"
    /\ HasCall(calls, "repos.getContent")

\* C18. Settings fetch failure is domain-local: when repos.get fails for a
\* repository, the failure is logged and no update is issued for it; the run
\* does not abort, the next handler to run is the next applier of that same
\* repository or, when no other section is present, the filter of the next
\* repository (or the summary).
SettingsFetchFailed ==
    env.handler = "updateRepositorySettings" /\ calls # <<>> /\ ~calls[1].ok
SettingsFetchFailureState ==
    SettingsFetchFailed =>
        /\ Len(calls) = 1 /\ calls[1].op = "repos.get"
        /\ logs # <<>> /\ logs[1].cat = "error"
        /\ pc \in {"apply", "filter", "done"}
        /\ pc = "apply" <=> Len(ExpectedOrder(settings)) > 1
        /\ pc = "done" => summary.set
SettingsFetchFailureStep ==
    SettingsFetchFailed =>
        /\ pc' # "fatal"
        /\ pc = "apply" =>
              /\ env'.handler \in Appliers \ {"updateRepositorySettings"}
              /\ env'.repo = env.repo
        /\ pc = "filter" =>
              /\ env'.handler = "shouldProcessRepository"
              /\ env'.repo # env.repo
SettingsFetchFailureLocal ==
    []SettingsFetchFailureState /\ [][env' # env => SettingsFetchFailureStep]_vars

\* C18 witness: the fetch failed for a repository whose collaborators are
\* still to be reconciled.
SettingsFetchFailureLocalWitness ==
    SettingsFetchFailed /\ settings.collaborators.set /\ pc = "apply"

\* C19. Label fetch failure is filter-recoverable: when the label fetch of
\* shouldProcessRepository fails, the fetch is made once only, the repository
\* is rejected and counted as skipped, no applier runs for it, and the run
\* goes on with the next repository or the summary instead of aborting.
LabelFetchFailed(cs) ==
    \E c \in 1..Len(cs) : cs[c].op = "issues.listLabelsForRepo" /\ ~cs[c].ok
LabelFetchFailureState ==
    (FilterRan /\ LabelFetchFailed(calls)) =>
        /\ Truthy(filters.label)
        /\ Len(calls) = 1
        /\ env.result = "false"
        /\ \E l \in 1..Len(logs) : logs[l].cat = "warn"
        /\ pc \in {"filter", "done"} /\ pos = 0
        /\ pc = "done" => summary.set
LabelFetchFailureStep ==
    /\ (pc = "filter" /\ LabelFetchFailed(calls')) =>
          /\ skippedCount' = skippedCount + 1
          /\ processedCount' = processedCount
          /\ env'.repo = repos.val[idx]
          /\ IF idx < Len(repos.val) THEN pc' = "filter" /\ idx' = idx + 1
             ELSE pc' = "done" /\ summary'.val.skipped = skippedCount'
    /\ (FilterRan /\ LabelFetchFailed(calls)) =>
          /\ env'.handler = "shouldProcessRepository"
          /\ env'.repo = repos.val[idx] /\ env'.repo # env.repo
LabelFetchFailureRecoverable ==
    []LabelFetchFailureState /\ [][env' # env => LabelFetchFailureStep]_vars

\* C19 witness: the label fetch failed for the first of two repositories,
\* which is counted as skipped, and the second one is up for its filter.
LabelFetchFailureRecoverableWitness ==
    /\ FilterRan /\ LabelFetchFailed(calls)
    /\ env.repo = 1 /\ skippedCount = 1 /\ pc = "filter" /\ idx = 2

\* C20. Completion: in dry-run and in live mode alike, once the repository
\* listing has enumerated successfully the run eventually prints the summary
\* (total, processed, skipped, mode), whatever the other remote calls and
\* the local file reads answer.
Summarized ==
    /\ pc = "done" /\ summary.set
    /\ DOMAIN summary.val = {"total", "processed", "skipped", "mode"}
Completion == repos.set ~> Summarized

\* C21. Summary counts: every repository of the listing is counted once, as
\* skipped by the step in which its filter returns false, as processed by
\* the step in which the last handler of a repository whose filter returned
\* true returns, whatever the mode and whatever the handlers did or failed
\* to do; the summary carries these two counts and their sum, the total.
SummaryCountsState ==
    /\ pc \in {"filter", "apply"} => processedCount + skippedCount = idx - 1
    /\ pc = "done" =>
          /\ summary.set
          /\ summary.val.processed = processedCount
          /\ summary.val.skipped = skippedCount
          /\ summary.val.total = Len(repos.val)
          /\ processedCount + skippedCount = Len(repos.val)
          /\ summary.val.mode = (IF dryRun THEN "Dry Run" ELSE "Live")
SummaryCountsStep ==
    /\ pc = "list" => processedCount' = 0 /\ skippedCount' = 0
    /\ (pc = "filter" /\ env'.result = "true") =>
          /\ pc' = "apply" /\ env'.repo = repos.val[idx]
          /\ processedCount' = processedCount /\ skippedCount' = skippedCount
    /\ (pc = "filter" /\ env'.result = "false") =>
          /\ pc' # "apply"
          /\ processedCount' = processedCount /\ skippedCount' = skippedCount + 1
    /\ pc = "apply" =>
          /\ skippedCount' = skippedCount
          /\ env'.repo = repos.val[idx]
          /\ processedCount' = processedCount + (IF pc' = "apply" THEN 0 ELSE 1)
          /\ pc' = "apply" => idx' = idx
SummaryCounts == []SummaryCountsState /\ [][env' # env => SummaryCountsStep]_vars

\* C21 witness: with the filter language go, the second of two repositories
\* (lib-b, Python) has just been rejected and the summary reads total 2,
\* processed 1, skipped 1.
SummaryCountsWitness ==
    /\ pc = "done" /\ FilterRan /\ env.result = "false"
    /\ filters = [namePattern |-> Unset, language |-> "go", label |-> Unset]
    /\ env.object = [name |-> "lib-b", language |-> "Python", archived |-> FALSE]
    /\ summary.val.total = 2 /\ summary.val.processed = 1 /\ summary.val.skipped = 1

\* C22. Skipped repositories are untouched: when the filter returns false
\* for a repository, in either mode, the only call made for it is the
\* filter's own label fetch, syncSettings does not enter the appliers, and
\* the next handler to run belongs to another repository; an applier runs,
\* and issues calls, only for the repository whose filter last returned true.
ApplierOps == {"repos.get", "repos.update", "repos.listCollaborators", "repos.addCollaborator",
               "repos.updateBranchProtection", "fs.readFile", "repos.getContent",
               "repos.createOrUpdateFileContents"}
SkippedUntouchedState ==
    /\ (FilterRan /\ env.result = "false") =>
          /\ pc \in {"filter", "done"} /\ pos = 0
          /\ \A c \in 1..Len(calls) : calls[c].op \notin ApplierOps
    /\ env.handler \in Appliers => \A c \in 1..Len(calls) : calls[c].repo = env.repo
SkippedUntouchedStep ==
    /\ (FilterRan /\ env.result = "false") =>
          /\ env'.handler = "shouldProcessRepository"
          /\ env'.repo # env.repo
    /\ env'.handler \in Appliers =>
          /\ env'.repo = env.repo
          /\ env.handler \in Appliers \/ (FilterRan /\ env.result = "true")
SkippedUntouched == []SkippedUntouchedState /\ [][env' # env => SkippedUntouchedStep]_vars

\* C22 witness: in a live run with every section present the first
\* repository is rejected and the filter of the second one is up next.
SkippedUntouchedWitness ==
    /\ FilterRan /\ env.result = "false" /\ ~dryRun
    /\ settings.repository.set /\ settings.collaborators.set
    /\ settings.branch_protection.set /\ settings.files.set
    /\ env.repo = 1 /\ pc = "filter" /\ idx = 2

\* C23. Dry-run mirrors live: run again in the other mode on the answers it
\* was given, a handler issues the same read calls, with the same arguments
\* and in the same order; the dry run issues no mutating call, the live run
\* prints no preview, and the previews of the dry run name, in order, the
\* same repository, operation and item as the mutating calls of the live
\* run.  The listing and the filter do not depend on the mode at all.
ReadsOf(cs) == SelectSeq(cs, LAMBDA c : c.op \in ReadOps)
PreviewLines(ls) == SelectSeq(ls, LAMBDA l : l.cat = "preview" /\ l.what # "content length")
PointOfCall(c) ==
    [repo |-> c.repo, op |-> c.op,
     item |-> CASE c.op = "repos.addCollaborator" ->
                     [username |-> c.arg.username, role |-> c.arg.permission]
                [] c.op = "repos.createOrUpdateFileContents" ->
                     [path |-> c.arg.path, create |-> ~Truthy(c.arg.sha)]
                [] OTHER -> c.arg]
PointOfLine(l) ==
    CASE l.what = "update settings" -> [repo |-> l.repo, op |-> "repos.update", item |-> l.item]
      [] l.what = "add collaborator" ->
           [repo |-> l.repo, op |-> "repos.addCollaborator", item |-> l.item]
      [] l.what = "update role" ->
           [repo |-> l.repo, op |-> "repos.addCollaborator",
            item |-> [username |-> l.item.username, role |-> l.item.to]]
      [] l.what = "update branch protection" ->
           [repo |-> l.repo, op |-> "repos.updateBranchProtection", item |-> l.item]
      [] l.what = "update file" ->
           [repo |-> l.repo, op |-> "repos.createOrUpdateFileContents",
            item |-> [path |-> l.item, create |-> FALSE]]
      [] l.what = "create file" ->
           [repo |-> l.repo, op |-> "repos.createOrUpdateFileContents",
            item |-> [path |-> l.item, create |-> TRUE]]
MutationPoints(cs) == [i \in 1..Len(Mutations(cs)) |-> PointOfCall(Mutations(cs)[i])]
PreviewPoints(ls) == [i \in 1..Len(PreviewLines(ls)) |-> PointOfLine(PreviewLines(ls)[i])]
\* The answer the last handler got to its n-th call.
AnswerAt(n) ==
    IF Len(calls) < n THEN [ok |-> FALSE, status |-> 500]
    ELSE IF calls[n].ok THEN [ok |-> TRUE, data |-> calls[n].res]
    ELSE IF calls[n].op = "repos.getContent" THEN [ok |-> FALSE, status |-> calls[n].res.status]
    ELSE [ok |-> FALSE]
\* The last handler run in mode `dry` on the answers it was given.
Rerun(dry) ==
    CASE env.handler = "updateRepositorySettings" ->
           updateRepositorySettings(env.repo, settings, dry, AnswerAt(1), TRUE)
      [] env.handler = "updateRepositoryCollaborators" ->
           updateRepositoryCollaborators(env.repo, settings.collaborators.val, dry, AnswerAt(1),
                                         [i \in 1..Len(settings.collaborators.val) |-> TRUE])
      [] env.handler = "updateBranchProtection" ->
           updateBranchProtection(env.repo, settings.branch_protection.val[env.k].branch,
                                  settings.branch_protection.val[env.k].protection, dry, TRUE)
      [] env.handler = "syncFileContent" ->
           syncFileContent(env.repo, settings.files.val[env.k], dry, AnswerAt(1), AnswerAt(2),
                           TRUE)
DryRunMirrorsLive ==
    IF env.handler \in Appliers
    THEN LET asDry == Rerun(TRUE)
             asLive == Rerun(FALSE)
         IN /\ ReadsOf(asDry.calls) = ReadsOf(asLive.calls)
            /\ ReadsOf(calls) = ReadsOf(asLive.calls)
            /\ Mutations(asDry.calls) = <<>>
            /\ PreviewLines(asLive.logs) = <<>>
            /\ PreviewPoints(asDry.logs) = MutationPoints(asLive.calls)
            /\ IF dryRun
               THEN /\ Mutations(calls) = <<>>
                    /\ PreviewPoints(logs) = MutationPoints(asLive.calls)
               ELSE /\ PreviewLines(logs) = <<>>
                    /\ MutationPoints(calls) = PreviewPoints(asDry.logs)
    ELSE Mutations(calls) = <<>> /\ PreviewLines(logs) = <<>>

\* C23 witness: a dry run previews the role update of alice from write to admin.
DryRunMirrorsLiveWitness ==
    /\ dryRun /\ CollaboratorsRan
    /\ \E l \in 1..Len(logs) :
          /\ logs[l].what = "update role"
          /\ logs[l].item = [username |-> "alice", from |-> "write", to |-> "admin"]

\* C24. CLI gating: the command-line entry calls syncSettings, at most once,
\* only when an organization (option or GITHUB_ORG), a token (option or
\* GITHUB_TOKEN) and a readable, parseable settings file holding an object
\* with at least one key are all there, and then it does call it; otherwise
\* it logs an error and exits with code 1 without calling it.
HasOrganization == Truthy(cli.org) \/ Truthy(cli.envOrg)
HasToken == Truthy(cli.token) \/ Truthy(cli.envToken)
Readable(file) == file # "ENOENT"
Parseable(file) == file # "not json"
NonEmptyObject(file) == file \notin {"null", "{}", "[]"}
HasSettings == Readable(cli.file) /\ Parseable(cli.file) /\ NonEmptyObject(cli.file)
CliGating ==
    /\ cli.syncCalls \in {0, 1}
    /\ cli.syncCalls = 1 <=> pc # "idle"
    /\ cli.syncCalls = 1 => (HasOrganization /\ HasToken /\ HasSettings)
    /\ (cli.stage \in {"sync", "exited"} /\ HasOrganization /\ HasToken /\ HasSettings)
          => cli.syncCalls = 1
    /\ (cli.stage = "exited" /\ ~(HasOrganization /\ HasToken /\ HasSettings)) =>
          /\ cli.exit = 1
          /\ Len(cli.errors) = 1
          /\ cli.syncCalls = 0
    /\ (cli.stage = "exited" /\ cli.syncCalls = 0) => cli.exit = 1

\* C24 witness: organization and token (from the environment only) are
\* there, the settings file holds {}; the command has exited with code 1
\* after "Settings file is empty".
CliGatingWitness ==
    /\ cli.stage = "exited" /\ cli.exit = 1 /\ cli.syncCalls = 0
    /\ cli.token = Unset /\ cli.envToken = "e0" /\ HasOrganization
    /\ cli.file = "{}"
    /\ cli.errors = <<"Settings file is empty">>

\* C25. Settings update cardinality: in a live run the settings handler
\* issues a settings update iff the repository section is present, the fetch
\* of the current settings succeeded and some desired key differs from it,
\* and then exactly one; an empty diff gives a skip line and no update; the
\* handler runs once per repository, right after its filter.
SettingsRan == env.handler = "updateRepositorySettings"
SettingsUpdates == SelectSeq(calls, LAMBDA c : c.op = "repos.update")
SettingsFetched == calls # <<>> /\ calls[1].op = "repos.get" /\ calls[1].ok
SettingsDiffer ==
    \E key \in DOMAIN settings.repository.val :
        key \notin DOMAIN calls[1].res \/ calls[1].res[key] # settings.repository.val[key]
SettingsUpdateState ==
    (SettingsRan /\ ~dryRun) =>
        /\ Len(SettingsUpdates) \in {0, 1}
        /\ Len(SettingsUpdates) = 1 <=>
              (settings.repository.set /\ SettingsFetched /\ SettingsDiffer)
        /\ (settings.repository.set /\ SettingsFetched /\ ~SettingsDiffer) =>
              /\ calls = <<calls[1]>>
              /\ logs # <<>> /\ logs[1].cat = "skip"
SettingsUpdateStep ==
    env'.handler = "updateRepositorySettings" =>
        /\ FilterRan /\ env.result = "true" /\ env.repo = env'.repo
        /\ \A c \in 1..Len(calls') : calls'[c].repo = env'.repo
SettingsUpdateCardinality ==
    []SettingsUpdateState /\ [][env' # env => SettingsUpdateStep]_vars

\* C25 witness: a live run finds the current settings equal to the desired
\* ones and skips the update.
SettingsUpdateCardinalityWitness ==
    /\ SettingsRan /\ ~dryRun /\ settings.repository.set /\ SettingsFetched
    /\ ~SettingsDiffer /\ Len(calls) = 1 /\ logs[1].cat = "skip"

\* C26. Branch failure isolation: when the protection update of a branch
\* fails, an error line names the branch, the run does not abort, and the
\* next handler to run is the protection update of the next branch of the
\* mapping (issuing its call) or, after the last branch, the sync of the
\* first file when the files section is present.
BranchUpdateFailed == BranchProtectionRan /\ calls # <<>> /\ ~calls[1].ok
BranchFailureState ==
    BranchUpdateFailed =>
        /\ \E l \in 1..Len(logs) :
              /\ logs[l].cat = "error"
              /\ logs[l].item = settings.branch_protection.val[env.k].branch
        /\ pc \in {"apply", "filter", "done"}
        /\ pc = "apply" <=> (env.k < Len(settings.branch_protection.val) \/ settings.files.set)
BranchFailureStep ==
    BranchUpdateFailed =>
        IF env.k < Len(settings.branch_protection.val)
        THEN /\ env'.handler = "updateBranchProtection"
             /\ env'.repo = env.repo /\ env'.k = env.k + 1
             /\ Len(calls') = 1
             /\ calls'[1].op = "repos.updateBranchProtection"
             /\ calls'[1].arg.branch = settings.branch_protection.val[env.k + 1].branch
        ELSE IF settings.files.set
        THEN /\ env'.handler = "syncFileContent"
             /\ env'.repo = env.repo /\ env'.k = 1
             /\ calls' # <<>>
        ELSE env'.handler = "shouldProcessRepository" /\ env'.repo # env.repo
BranchFailureIsolation ==
    []BranchFailureState /\ [][env' # env => BranchFailureStep]_vars

\* C26 witness: the update of the first branch failed; the second branch
\* and the files are still to come.
BranchFailureIsolationWitness ==
    /\ BranchUpdateFailed /\ env.k = 1 /\ pc = "apply"
    /\ Len(settings.branch_protection.val) = 2 /\ settings.files.set

\* The handler that follows the sync of file spec env.k: the sync of the
\* next spec of the list, starting with its local read, or after the last
\* spec the filter of the next repository.
NextFileStep ==
    IF env.k < Len(settings.files.val)
    THEN /\ env'.handler = "syncFileContent"
         /\ env'.repo = env.repo /\ env'.k = env.k + 1
         /\ calls' # <<>>
         /\ calls'[1].op = "fs.readFile"
         /\ calls'[1].arg.path = settings.files.val[env.k + 1].localPath
    ELSE env'.handler = "shouldProcessRepository" /\ env'.repo # env.repo
FileErrorLogged ==
    \E l \in 1..Len(logs) :
        logs[l].cat = "error" /\ logs[l].item = settings.files.val[env.k].path

\* C27. Local read failure aborts only that file: when the local read of a
\* file spec fails, the read is the handler's only call (no remote fetch, no
\* upsert), an error line names the spec, the run does not abort, and the
\* next handler to run is the sync of the next file spec.
LocalReadFailed ==
    FileRan /\ \E c \in 1..Len(calls) : calls[c].op = "fs.readFile" /\ ~calls[c].ok
LocalReadFailureState ==
    LocalReadFailed =>
        /\ Len(calls) = 1
        /\ FileErrorLogged
        /\ pc \in {"apply", "filter", "done"}
        /\ pc = "apply" <=> env.k < Len(settings.files.val)
LocalReadFailureLocal ==
    []LocalReadFailureState /\ [][(env' # env /\ LocalReadFailed) => NextFileStep]_vars

\* C27 witness: the local read of the first of two file specs failed.
LocalReadFailureLocalWitness ==
    LocalReadFailed /\ env.k = 1 /\ Len(settings.files.val) = 2 /\ pc = "apply"

\* C28. Not-found versus error on file fetch: a fetch answered 404 counts
\* as "no file" and leads to a create (previewed in a dry run); a fetch that
\* fails otherwise leads to no upsert, an error line for that file spec, no
\* abort, and the next handler to run is the sync of the next file spec.
FetchFailedWith(status) ==
    /\ FileRan /\ Len(calls) >= 2
    /\ calls[2].op = "repos.getContent" /\ ~calls[2].ok
    /\ IF status = 404 THEN calls[2].res.status = 404 ELSE calls[2].res.status # 404
NotFoundVersusErrorState ==
    /\ FetchFailedWith(404) =>
          IF dryRun
          THEN /\ Len(calls) = 2
               /\ \E l \in 1..Len(logs) : logs[l].cat = "preview" /\ logs[l].what = "create file"
          ELSE /\ Len(calls) = 3
               /\ calls[3].op = "repos.createOrUpdateFileContents"
               /\ calls[3].arg.sha = Unset
               /\ calls[3].arg.path = settings.files.val[env.k].path
    /\ FetchFailedWith(500) =>
          /\ Len(calls) = 2
          /\ FileErrorLogged
          /\ \A l \in 1..Len(logs) : logs[l].cat # "preview"
          /\ pc \in {"apply", "filter", "done"}
          /\ pc = "apply" <=> env.k < Len(settings.files.val)
NotFoundVersusError ==
    []NotFoundVersusErrorState /\ [][(env' # env /\ FetchFailedWith(500)) => NextFileStep]_vars

\* C28 witness: the fetch for the first of two file specs failed with a
\* status other than 404.
NotFoundVersusErrorWitness ==
    FetchFailedWith(500) /\ env.k = 1 /\ Len(settings.files.val) = 2 /\ pc = "apply"

\* C29. No retry: no handler issues the same operation for the same
\* repository and item (page, username, branch, path) twice, whether the
\* first attempt failed or not; and the handlers themselves never come
\* back: listing pages are asked in increasing page order, and afterwards
\* every handler belongs to a later repository than the one before it, or
\* to a later place in the same repository's fixed order of handlers.
InstanceOf(c) ==
    <<c.op, c.repo,
      CASE c.op = "repos.listForOrg" -> c.arg.page
        [] c.op = "repos.addCollaborator" -> c.arg.username
        [] c.op = "repos.updateBranchProtection" -> c.arg.branch
        [] c.op \in {"fs.readFile", "repos.getContent", "repos.createOrUpdateFileContents"} ->
             c.arg.path
        [] OTHER -> "">>
NoRetryState ==
    /\ \A i \in 1..Len(calls) : \A j \in (i + 1)..Len(calls) :
          InstanceOf(calls[i]) # InstanceOf(calls[j])
    /\ env.handler \in Appliers \cup {"shouldProcessRepository"} =>
          \A c \in 1..Len(calls) :
              /\ calls[c].repo = env.repo
              /\ calls[c].op \in HandlerOps(env.handler)
              /\ ItemOf(calls[c]) \in ExpectedItems(env)
RankOf(e, cs) ==
    CASE e.handler = "getRepositories" -> <<0, cs[1].arg.page>>
      [] e.handler = "shouldProcessRepository" -> <<e.repo, 0>>
      [] e.handler \in Appliers -> <<e.repo, OrderIndex(e)>>
      [] OTHER -> <<0, 0>>
NoRetryStep ==
    LET before == RankOf(env, calls)
        after == RankOf(env', calls')
    IN \/ before[1] < after[1]
       \/ before[1] = after[1] /\ before[2] < after[2]
NoRetry == []NoRetryState /\ [][NoRetryStep]_vars

\* C29 witness: a create-or-update call has failed and is the last call of
\* its handler.
NoRetryWitness ==
    /\ FileRan /\ Len(calls) = 3
    /\ calls[3].op = "repos.createOrUpdateFileContents" /\ ~calls[3].ok

\* C30. Sequential repositories: the listing is finished (its last page came
\* back empty and the list is fixed) before the first filter runs and is
\* never asked again; the first filter is for the first repository of the
\* list, every later filter is for the repository right after the one the
\* previous handler worked on, and every applier works on the repository of
\* the handler before it; all calls of a handler are for that handler's
\* repository, each with its answer recorded in order, one after another.
PlaceOf(r) == CHOOSE i \in 1..Len(repos.val) : repos.val[i] = r
SequentialState ==
    /\ pc = "list" => ~repos.set
    /\ env.handler = "getRepositories" =>
          \A c \in 1..Len(calls) : calls[c].op = "repos.listForOrg"
    /\ env.handler \in Appliers \cup {"shouldProcessRepository"} =>
          /\ repos.set
          /\ env.repo \in Range(repos.val)
          /\ idx = PlaceOf(env.repo) \/ (pc \in {"filter", "done"} /\ idx >= PlaceOf(env.repo))
          /\ \A c \in 1..Len(calls) :
                calls[c].repo = env.repo /\ calls[c].op # "repos.listForOrg"
SequentialStep ==
    /\ env'.handler = "getRepositories" => env.handler \in {"none", "getRepositories"}
    /\ env'.handler = "shouldProcessRepository" =>
          /\ repos.set /\ repos' = repos
          /\ env.handler # "none"
          /\ IF env.handler = "getRepositories"
             THEN /\ calls[1].ok /\ calls[1].res = <<>>
                  /\ env'.repo = repos.val[1]
             ELSE /\ PlaceOf(env.repo) < Len(repos.val)
                  /\ env'.repo = repos.val[PlaceOf(env.repo) + 1]
    /\ env'.handler \in Appliers =>
          /\ env.handler \in Appliers \cup {"shouldProcessRepository"}
          /\ env'.repo = env.repo
          /\ repos' = repos
SequentialRepositories == []SequentialState /\ [][SequentialStep]_vars

\* C30 witness: an applier has run for the second repository of the list.
SequentialRepositoriesWitness ==
    /\ env.handler \in Appliers /\ Len(repos.val) >= 2 /\ env.repo = repos.val[2]
    /\ calls # <<>>

\* C31. Lazy, short-circuited label fetch: the filter of a repository issues
\* the label fetch at most once, and issues it exactly when a label filter
\* is set, the repository is not archived and the name pattern and the
\* language, where set, have passed; a repository rejected as archived, by
\* name or by language causes no label fetch, none happens without a label
\* filter, and no other handler fetches labels.
LabelFetches == SelectSeq(calls, LAMBDA c : c.op = "issues.listLabelsForRepo")
EarlierPredicatesPass(obj, f) ==
    /\ ~obj.archived
    /\ Truthy(f.namePattern) => (RegExpValid(f.namePattern) /\ RegExpTest(f.namePattern, obj.name))
    /\ Truthy(f.language) =>
          (obj.language # Null /\ toLowerCase(obj.language) = toLowerCase(f.language))
LazyLabelFetch ==
    /\ Len(LabelFetches) <= 1
    /\ ~FilterRan => LabelFetches = <<>>
    /\ FilterRan =>
          /\ LabelFetches # <<>> <=>
                (Truthy(filters.label) /\ EarlierPredicatesPass(env.object, filters))
          /\ \A c \in 1..Len(LabelFetches) : LabelFetches[c].repo = env.repo
          /\ (\E l \in 1..Len(logs) :
                 logs[l].cat = "skip" /\ logs[l].what \in {"archived", "name pattern", "language"})
                => LabelFetches = <<>>

\* C31 witness: with a label filter set, a repository that is not archived
\* is rejected by its name or by its language.
LazyLabelFetchWitness ==
    /\ FilterRan /\ Truthy(filters.label) /\ ~env.object.archived
    /\ env.result = "false"
    /\ \E l \in 1..Len(logs) : logs[l].cat = "skip" /\ logs[l].what \in {"name pattern", "language"}

\* C33. Structural comparison in the diff: a top-level key of the desired
\* repository section is in the diff iff it is missing from the current
\* settings or its desired value is not structurally equal to the current
\* one (same type; equal booleans; for objects the same keys with the same
\* values, whatever the order of the keys), and the diff carries the desired
\* value of each such key.
DeepEqual(a, b) ==
    IF a.t # b.t THEN FALSE
    ELSE IF a.t = "boolean" THEN a.v = b.v
    ELSE /\ {a.v[i].key : i \in 1..Len(a.v)} = {b.v[j].key : j \in 1..Len(b.v)}
         /\ \A i \in 1..Len(a.v) : \A j \in 1..Len(b.v) :
               a.v[i].key = b.v[j].key => a.v[i].value = b.v[j].value
StructuralDiff ==
    env.handler = "getSettingsDiff" =>
        LET desired == settings.repository.val
        IN /\ DOMAIN env.diff =
                 {key \in DOMAIN desired :
                     key \notin DOMAIN env.current \/ ~DeepEqual(env.current[key], desired[key])}
           /\ \A key \in DOMAIN env.diff : env.diff[key] = desired[key]

\* C34. Counter invariant: both counters are 0 until the repository loop
\* starts; a step adds 1 to at most one of them and never takes anything
\* away; at every point of the loop processed + skipped is the number of
\* repositories whose iteration has finished, and at the summary it is the
\* number of repositories listed; processed grows only when the last
\* applier call planned for the repository returns, skipped only when the
\* filter returns false.
FinishedIterations == IF pc = "done" THEN Len(repos.val) ELSE idx - 1
CounterState ==
    /\ processedCount \in Nat /\ skippedCount \in Nat
    /\ ~repos.set => (processedCount = 0 /\ skippedCount = 0)
    /\ repos.set => processedCount + skippedCount = FinishedIterations
    /\ summary.set =>
          /\ pc = "done"
          /\ summary.val.total = Len(repos.val)
          /\ summary.val.processed + summary.val.skipped = summary.val.total
CounterStep ==
    /\ processedCount' - processedCount \in {0, 1}
    /\ skippedCount' - skippedCount \in {0, 1}
    /\ (processedCount' + skippedCount') - (processedCount + skippedCount) \in {0, 1}
    /\ processedCount' = processedCount + 1 =>
          /\ pc = "apply" /\ env'.handler \in Appliers /\ env'.repo = repos.val[idx]
          /\ Plan(settings)[pos].kind = "call"
          /\ \A t \in (pos + 1)..Len(Plan(settings)) : Plan(settings)[t].kind # "call"
    /\ skippedCount' = skippedCount + 1 =>
          /\ pc = "filter" /\ env'.handler = "shouldProcessRepository"
          /\ env'.result = "false" /\ env'.repo = repos.val[idx]
CounterInvariant == []CounterState /\ [][CounterStep]_vars

\* C34 witness: of two repositories the first was skipped and the second
\* processed, its last applier being the third call or later of the plan.
CounterInvariantWitness ==
    /\ pc = "done" /\ processedCount = 1 /\ skippedCount = 1
    /\ env.handler \in Appliers /\ OrderIndex(env) >= 3

\* C35. Collaborator list failure degrades to an empty current list: when
\* listCollaborators fails, the only trace of the failure is a warning line,
\* the run is not ended, and every desired entry is treated as Add: a live
\* run issues one set-permission call per desired entry, in the list's
\* order and with the entry's role (also when the remote already holds
\* every desired role), a dry run previews one Add per entry.
CollaboratorListFailed ==
    CollaboratorsRan /\ calls # <<>> /\ calls[1].op = "repos.listCollaborators" /\ ~calls[1].ok
EntryLines == SelectSeq(logs, LAMBDA l : l.what \in AddLines \cup UpdateLines)
ListFailureMeansAddAll ==
    CollaboratorListFailed =>
        LET desired == settings.collaborators.val
        IN /\ logs # <<>> /\ logs[1].cat = "warn" /\ logs[1].what = "fetch collaborators"
           /\ \A l \in 1..Len(logs) : logs[l].what = "fetch collaborators" => l = 1
           /\ pc # "fatal"
           /\ Len(calls) = 1 + (IF dryRun THEN 0 ELSE Len(desired))
           /\ ~dryRun =>
                 \A i \in 1..Len(desired) :
                     /\ calls[i + 1].op = "repos.addCollaborator"
                     /\ calls[i + 1].arg = [username |-> desired[i].username,
                                            permission |-> desired[i].role]
           /\ Len(EntryLines) = Len(desired)
           /\ \A i \in 1..Len(desired) :
                 /\ EntryLines[i].what \in AddLines
                 /\ EntryLines[i].item.username = desired[i].username
                 /\ EntryLines[i].cat =
                       (IF dryRun THEN "preview"
                        ELSE IF calls[i + 1].ok THEN "success" ELSE "error")

\* C35 witness: the remote already holds every desired role, the list fetch
\* fails, and a live run sets the permission of both desired collaborators.
ListFailureMeansAddAllWitness ==
    /\ CollaboratorListFailed /\ ~dryRun /\ remoteSatisfies
    /\ Len(settings.collaborators.val) = 2 /\ Len(calls) = 3
    /\ calls[2].ok /\ calls[3].ok

\* C36. Non-file remote object counts as absent: when the fetch at a file
\* spec's path succeeds with something that is not a file, the handler does
\* what it does on the same inputs when the fetch answers 404: a live run
\* issues one create call for that path with the local content, no sha and
\* the message "Add <path>", a dry run previews the creation.
NonFileFetched ==
    /\ FileRan /\ Len(calls) >= 2
    /\ calls[2].op = "repos.getContent" /\ calls[2].ok /\ calls[2].res.type # "file"
NonFileIsAbsent ==
    NonFileFetched =>
        LET fileSync == settings.files.val[env.k]
            asNotFound == syncFileContent(env.repo, fileSync, dryRun, AnswerAt(1),
                                          [ok |-> FALSE, status |-> 404],
                                          IF Len(calls) >= 3 THEN calls[3].ok ELSE TRUE)
        IN /\ Mutations(calls) = Mutations(asNotFound.calls)
           /\ Len(logs) >= Len(asNotFound.logs)
           /\ SubSeq(logs, 1, Len(asNotFound.logs)) = asNotFound.logs
           /\ Len(calls) = (IF dryRun THEN 2 ELSE 3)
           /\ ~dryRun =>
                 /\ calls[3].op = "repos.createOrUpdateFileContents"
                 /\ calls[3].arg = [path |-> fileSync.path,
                                    message |-> "Add " \o fileSync.path,
                                    content |-> Base64Encode(calls[1].res),
                                    sha |-> Unset]
           /\ dryRun => logs[1].cat = "preview" /\ logs[1].what = "create file"

\* C36 witness: a directory sits at the path of a file spec and a live run
\* issues the create call.
NonFileIsAbsentWitness ==
    /\ NonFileFetched /\ ~dryRun /\ calls[2].res.type = "dir"
    /\ Len(calls) = 3 /\ calls[3].arg.sha = Unset

\* C37. Convergence after one live run: with a remote that keeps what it is
\* sent and changes in no other way, pairwise distinct desired usernames and
\* file paths, and a first live run in which every call succeeded, the
\* second run with the same configuration and local files issues no
\* repos.update, no addCollaborator and no createOrUpdateFileContents call.
ConvergedOps == {"repos.update", "repos.addCollaborator", "repos.createOrUpdateFileContents"}
Convergence ==
    remote.run = 2 => \A c \in 1..Len(calls) : calls[c].op \notin ConvergedOps

\* C38. Single collaborator snapshot: a pass of updateRepositoryCollaborators
\* fetches the current list exactly once, as its first call, also for an
\* empty desired list; every desired entry, taken by its position in the
\* list, is classified against that one answer, whatever the calls made for
\* earlier entries: the set-permission calls of a live pass are, in order,
\* the entries classified Add or Update, so a username that is absent
\* remotely and listed twice is added twice.
ClassOf(i) == Classify(settings.collaborators.val[i], CurrentCollaborators)
ToReconcile ==
    SelectSeq([i \in 1..Len(settings.collaborators.val) |-> i], LAMBDA i : ClassOf(i) # "No-op")
SingleSnapshot ==
    CollaboratorsRan =>
        /\ calls # <<>> /\ calls[1].op = "repos.listCollaborators"
        /\ \A c \in 2..Len(calls) : calls[c].op = "repos.addCollaborator"
        /\ Len(calls) = 1 + (IF dryRun THEN 0 ELSE Len(ToReconcile))
        /\ Len(EntryLines) = Len(ToReconcile)
        /\ \A n \in 1..Len(ToReconcile) :
              LET entry == settings.collaborators.val[ToReconcile[n]]
              IN /\ ~dryRun => calls[n + 1].arg = [username |-> entry.username,
                                                    permission |-> entry.role]
                 /\ EntryLines[n].item.username = entry.username
                 /\ EntryLines[n].what \in
                       (IF ClassOf(ToReconcile[n]) = "Add" THEN AddLines ELSE UpdateLines)

\* C38 witness: erin is listed twice and is not a collaborator yet; a live
\* pass fetches the list once and adds erin twice.
SingleSnapshotWitness ==
    /\ CollaboratorsRan /\ ~dryRun /\ calls # <<>> /\ calls[1].ok
    /\ settings.collaborators.val =
          <<[username |-> "erin", role |-> "read"], [username |-> "erin", role |-> "read"]>>
    /\ Len(calls) = 3
    /\ calls[2].arg.username = "erin" /\ calls[3].arg.username = "erin"
    /\ logs[1].what \in AddLines /\ logs[2].what \in AddLines

\* C39. Domain-level success line is unconditional: after the applier call
\* of the collaborators section, after the last applier call of the branch
\* protection section and after the last applier call of the files section
\* of a matching repository, syncSettings prints that section's
\* repository-level success line, once, as the last line before its next
\* await, whether or not the handler logged errors; no such line is printed
\* anywhere else.
DomainLines ==
    SelectSeq(logs, LAMBDA l : l.cat = "success" /\ l.what \in {"collaborators", "branch", "files"})
ClosedDomain ==
    CASE env.handler = "updateRepositoryCollaborators" -> "collaborators"
      [] env.handler = "updateBranchProtection"
         /\ env.k = Len(settings.branch_protection.val) -> "branch"
      [] env.handler = "syncFileContent" /\ env.k = Len(settings.files.val) -> "files"
      [] OTHER -> "none"
DomainLineUnconditional ==
    IF ClosedDomain = "none" THEN DomainLines = <<>>
    ELSE /\ DomainLines = <<Log("success", ClosedDomain, env.repo, "")>>
         /\ logs[Len(logs)] = DomainLines[1]

\* C39 witness: the sync of the last file spec failed and the files line of
\* the repository is printed after the error line.
DomainLineUnconditionalWitness ==
    /\ ClosedDomain = "files" /\ Len(logs) = 2
    /\ logs[1].cat = "error" /\ logs[2].what = "files"

====
